---- MODULE Spec2Model ----
(***************************************************************************)
(* Model of solutions_colab/Radon.ipynb: the RadonRotate helper, the       *)
(* operator it builds (one Sum * Bilinear block per angle, stacked), the   *)
(* error metric of the reconstructions and the top-to-bottom run of the    *)
(* notebook's cells.                                                       *)
(*                                                                         *)
(* Numbers.  Angles are points of the unit circle with rational            *)
(* coordinates (cos, sin) = (c/d, s/d), c*c + s*s = d*d, so that rotated   *)
(* coordinates and interpolation weights are exact multiples of 1/d and    *)
(* interpolated values exact multiples of 1/(d*d).  Arithmetic is exact    *)
(* (real), not IEEE double.                                                *)
(* Arrays are flattened in C order, as ravel() does: element (i, j) of an  *)
(* n1-by-n2 array is entry i*n2 + j + 1 of a sequence.                     *)
(***************************************************************************)
EXTENDS Integers, Sequences, FiniteSets, TLC

\* Bounds of the model.
MaxN == 5
MaxInner == 2
MaxThetas == 2
MaxPad == 2
MaxPhantom == 2

\* The notebook's values: shepp_logan_phantom() is 400-by-400, pad = 50, inner = 100.
PhantomSide == 400
NotebookPad == 50
NotebookInner == 100

\* image.shape after [::2, ::2] and np.pad(image, ((pad, pad), (pad, pad)))
NotebookSide == ((PhantomSide + 1) \div 2) + 2 * NotebookPad

\* Angles in degrees, given by the rational point (c/d, s/d) they convert to:
\* 0, atan(3/4) = 36.87.., 90 and 180 - atan(4/3) = 126.87.. degrees.
Angles ==
  { [unit |-> "deg", c |-> 5, s |-> 0, d |-> 5],
    [unit |-> "deg", c |-> 4, s |-> 3, d |-> 5],
    [unit |-> "deg", c |-> 0, s |-> 5, d |-> 5],
    [unit |-> "deg", c |-> -3, s |-> 4, d |-> 5] }

Theta0 == [unit |-> "deg", c |-> 5, s |-> 0, d |-> 5]

\* The common denominator of the modelled angles.
Den == Theta0.d

Sides == (MaxN - 1)..MaxN
Inners == 0..MaxInner

RECURSIVE SeqsUpTo(_, _)
SeqsUpTo(S, n) ==
  IF n = 0 THEN {<<>>}
  ELSE LET shorter == SeqsUpTo(S, n - 1)
       IN shorter \cup {Append(q, a) : q \in {r \in shorter : Len(r) = n - 1}, a \in S}

ThetaLists == SeqsUpTo(Angles, MaxThetas) \ {<<>>}

(***************************************************************************)
(* numpy helpers                                                           *)
(***************************************************************************)
\* np.arange(n): 0, 1, .., n-1 (empty when n <= 0)
arange(n) == [i \in 1..n |-> i - 1]

\* np.deg2rad: the same direction, now in radians
deg2rad(ths) == [k \in 1..Len(ths) |-> [ths[k] EXCEPT !.unit = "rad"]]

\* np.meshgrid(x, y, indexing='ij') followed by ravel() and vstack:
\* XY[1][p] = x[i], XY[2][p] = y[j] for p = i*Len(y) + j
meshgrid_ij(x, y) ==
  << [p \in 1..(Len(x) * Len(y)) |-> x[((p - 1) \div Len(y)) + 1]],
     [p \in 1..(Len(x) * Len(y)) |-> y[((p - 1) % Len(y)) + 1]] >>

RECURSIVE SumTo(_, _)
SumTo(f, n) == IF n = 0 THEN 0 ELSE f[n] + SumTo(f, n - 1)

\* np.vdot for real vectors of the same length
vdot(a, b) == SumTo([i \in 1..Len(a) |-> a[i] * b[i]], Len(a))

(***************************************************************************)
(* The linear operators RadonRotate composes.  An operator is a record;    *)
(* shape = <<rows, columns>>.  A constructor or an application that        *)
(* raises yields the exception instead.                                    *)
(***************************************************************************)
ValueError == [kind |-> "ValueError"]
None == [kind |-> "none"]

IsOp(A) == A.kind \in {"Bilinear", "Sum", "Product", "VStack"}

\* pylops.signalprocessing.Bilinear(iava, dims): iava holds the sampling
\* coordinates, here as numerators over Den.
Bilinear(iava, dims) ==
  [kind |-> "Bilinear", iava |-> iava, dims |-> dims,
   shape |-> <<Len(iava[2]), dims[1] * dims[2]>>]

\* pylops.Sum(dims, dir=0)
Sum(dims) ==
  [kind |-> "Sum", dims |-> dims, shape |-> <<dims[2], dims[1] * dims[2]>>]

\* A * B of two operators: the columns of A must be the rows of B.
Product(A, B) ==
  IF A.shape[2] # B.shape[1] THEN ValueError
  ELSE [kind |-> "Product", S |-> A, B |-> B, shape |-> <<A.shape[1], B.shape[2]>>]

RECURSIVE Rows(_, _)
Rows(ops, n) == IF n = 0 THEN 0 ELSE ops[n].shape[1] + Rows(ops, n - 1)

\* pylops.VStack(ops): every block must exist and have the same columns.
VStack(ops) ==
  IF \/ ops = <<>>
     \/ \E k \in 1..Len(ops) : ~IsOp(ops[k])
  THEN ValueError
  ELSE IF \E k \in 1..Len(ops) : ops[k].shape[2] # ops[1].shape[2]
  THEN ValueError
  ELSE [kind |-> "VStack", ops |-> ops,
        shape |-> <<Rows(ops, Len(ops)), ops[1].shape[2]>>]

\* Indices and weights of Bilinear: floor of the coordinate, the next index,
\* and the fractional part (numerator over Den).
iava_t(B, p) == B.iava[1][p] \div Den
iava_b(B, p) == iava_t(B, p) + 1
weights_tb(B, p) == B.iava[1][p] - Den * iava_t(B, p)
iava_l(B, p) == B.iava[2][p] \div Den
iava_r(B, p) == iava_l(B, p) + 1
weights_lr(B, p) == B.iava[2][p] - Den * iava_l(B, p)

\* Every sample has its four neighbours among the pixels of the image.
Interpolable(B) ==
  \A p \in 1..Len(B.iava[1]) :
    /\ 0 <= iava_t(B, p) /\ iava_b(B, p) <= B.dims[1] - 1
    /\ 0 <= iava_l(B, p) /\ iava_r(B, p) <= B.dims[2] - 1

\* index of pixel (i, j) in the flattened image
Flat(B, i, j) == i * B.dims[2] + j + 1

\* Bilinear forward: weighted mean of the four neighbours, times Den*Den.
Bilinear_matvec(B, x) ==
  [p \in 1..Len(B.iava[1]) |->
      x[Flat(B, iava_t(B, p), iava_l(B, p))] * (Den - weights_tb(B, p)) * (Den - weights_lr(B, p))
    + x[Flat(B, iava_t(B, p), iava_r(B, p))] * (Den - weights_tb(B, p)) * weights_lr(B, p)
    + x[Flat(B, iava_b(B, p), iava_l(B, p))] * weights_tb(B, p) * (Den - weights_lr(B, p))
    + x[Flat(B, iava_b(B, p), iava_r(B, p))] * weights_tb(B, p) * weights_lr(B, p)]

\* Bilinear adjoint: every sample is added, with its four weights, to its four
\* neighbours (np.add.at), sample after sample.
RECURSIVE AddAt(_, _, _, _)
AddAt(B, y, acc, p) ==
  IF p = 0 THEN acc
  ELSE LET a  == AddAt(B, y, acc, p - 1)
           tl == Flat(B, iava_t(B, p), iava_l(B, p))
           tr == Flat(B, iava_t(B, p), iava_r(B, p))
           bl == Flat(B, iava_b(B, p), iava_l(B, p))
           br == Flat(B, iava_b(B, p), iava_r(B, p))
           a1 == [a  EXCEPT ![tl] = @ + y[p] * (Den - weights_tb(B, p)) * (Den - weights_lr(B, p))]
           a2 == [a1 EXCEPT ![tr] = @ + y[p] * (Den - weights_tb(B, p)) * weights_lr(B, p)]
           a3 == [a2 EXCEPT ![bl] = @ + y[p] * weights_tb(B, p) * (Den - weights_lr(B, p))]
       IN  [a3 EXCEPT ![br] = @ + y[p] * weights_tb(B, p) * weights_lr(B, p)]

Bilinear_rmatvec(B, y) ==
  AddAt(B, y, [q \in 1..(B.dims[1] * B.dims[2]) |-> 0], Len(B.iava[1]))

\* Sum forward: sum over axis 0 of the dims[1]-by-dims[2] array.
Sum_matvec(S, x) ==
  [j \in 1..S.dims[2] |->
     SumTo([i \in 1..S.dims[1] |-> x[(i - 1) * S.dims[2] + j]], S.dims[1])]

\* Mutant of Sum_rmatvec: the vector is written to the first row only.
Sum_rmatvec_firstrow(S, y) ==
  [q \in 1..(S.dims[1] * S.dims[2]) |-> IF q <= S.dims[2] THEN y[q] ELSE 0]

\* Sum adjoint: the vector is spread (replicated) along axis 0.
Sum_rmatvec(S, y) ==
  [q \in 1..(S.dims[1] * S.dims[2]) |-> y[((q - 1) % S.dims[2]) + 1]]

\* (S * B) x = S (B x) and (S * B)^H y = B^H (S^H y)
Product_matvec(P, x) == Sum_matvec(P.S, Bilinear_matvec(P.B, x))
Product_rmatvec(P, y) == Bilinear_rmatvec(P.B, Sum_rmatvec(P.S, y))

\* VStack forward: the outputs of the blocks one after the other.
RECURSIVE VStack_matvec_upto(_, _, _)
VStack_matvec_upto(V, x, n) ==
  IF n = 0 THEN <<>>
  ELSE VStack_matvec_upto(V, x, n - 1) \o Product_matvec(V.ops[n], x)

VStack_matvec(V, x) == VStack_matvec_upto(V, x, Len(V.ops))

\* VStack adjoint: the sum over the blocks of the block's adjoint applied to
\* the block's slice x[mmops[k] : mmops[k+1]].
RECURSIVE VStack_rmatvec_upto(_, _, _)
VStack_rmatvec_upto(V, y, n) ==
  IF n = 0 THEN [q \in 1..V.shape[2] |-> 0]
  ELSE LET lo  == Rows(V.ops, n - 1)
           sl  == [r \in 1..V.ops[n].shape[1] |-> y[lo + r]]
           acc == VStack_rmatvec_upto(V, y, n - 1)
           add == Product_rmatvec(V.ops[n], sl)
       IN  [q \in 1..V.shape[2] |-> acc[q] + add[q]]

VStack_rmatvec(V, y) == VStack_rmatvec_upto(V, y, Len(V.ops))

\* The whole stack can be applied: every block interpolates inside the image.
Applicable(V) ==
  /\ IsOp(V)
  /\ \A k \in 1..Len(V.ops) : Interpolable(V.ops[k].B)

(***************************************************************************)
(* State                                                                   *)
(***************************************************************************)
VARIABLES
  nx, ny,        \* image.shape
  inner,         \* the margin left out of the rotated grid
  thetas,        \* the notebook's angles, in degrees
  pc,            \* position in RadonRotate and in the cells that use Radop
  rr,            \* the local variables of the running RadonRotate call
  Radop,         \* the stacked operator (None before it is built)
  image,         \* the vector Radop was applied to
  projection1,   \* Radop * image.ravel(), reshaped
  ydata,         \* the data vector Radop.H was applied to
  xadj,          \* Radop.H * ydata
  grid,          \* one row of the illustration's grid, centred and rotated
  mse,           \* the inputs and the value of one error metric
  nb,            \* the kernel of a run: the names bound and their values
  log,           \* the events of a run, in order
  raised         \* the library call that failed of its own in a run (None: none)

varsOp == <<nx, ny, inner, thetas, pc, rr, Radop, image, projection1, ydata, xadj>>
varsGrid == <<grid>>
varsMse == <<mse>>
varsRun == <<nb, log, raised>>
vars == <<varsOp, varsGrid, varsMse, varsRun>>

\* The outcome of sampling outside the image is not modelled.
Undefined == [kind |-> "undefined"]

IdleGrid == [theta |-> None, i |-> 0, XY |-> << <<>>, <<>> >>, XYrot |-> << <<>>, <<>> >>]
IdleMse == [pad |-> 0, n |-> 0, image |-> <<>>, rec |-> <<>>, which |-> "none", value |-> None]

NoLocals == [dims |-> <<>>, inner |-> 0, thetas |-> <<>>, nx |-> 0, ny |-> 0,
             x0 |-> 0, y0 |-> 0, x |-> <<>>, y |-> <<>>, XY |-> <<>>,
             Rops |-> <<>>, k |-> 0, theta |-> None, XYrot |-> <<>>]

\* Unit vectors and one dense vector of n samples.
Impulse(n, q) == [i \in 1..n |-> IF i = q THEN 1 ELSE 0]
Ramp(n) == [i \in 1..n |-> i]
Vectors(n) == {Impulse(n, q) : q \in 1..n} \cup {Ramp(n)}

(***************************************************************************)
(* RadonRotate(dims, inner, thetas)                                        *)
(***************************************************************************)
\* Mutant of GridAxis: the half margin is not added back.
GridAxis_unshifted(n, inner_, c0) ==
  LET a == arange(n - inner_)
  IN  [i \in 1..(n - inner_) |-> a[i] - c0]

\* x = np.arange(n - inner) - c0 + inner//2
GridAxis(n, inner_, c0) ==
  LET a == arange(n - inner_)
  IN  [i \in 1..(n - inner_) |-> a[i] - c0 + (inner_ \div 2)]

\* Mutant of Rotate: the transposed matrix (a rotation by -theta).
Rotate_transposed(theta, XY) ==
  << [p \in 1..Len(XY[1]) |-> theta.c * XY[1][p] + theta.s * XY[2][p]],
     [p \in 1..Len(XY[1]) |-> theta.c * XY[2][p] - theta.s * XY[1][p]] >>

\* R @ XY for R = [[cos, -sin], [sin, cos]], as numerators over theta.d
Rotate(theta, XY) ==
  << [p \in 1..Len(XY[1]) |-> theta.c * XY[1][p] - theta.s * XY[2][p]],
     [p \in 1..Len(XY[1]) |-> theta.s * XY[1][p] + theta.c * XY[2][p]] >>

\* XYrot[0] += x0; XYrot[1] += y0
Recenter(theta, XYrot, x0, y0) ==
  << [p \in 1..Len(XYrot[1]) |-> XYrot[1][p] + theta.d * x0],
     [p \in 1..Len(XYrot[2]) |-> XYrot[2][p] + theta.d * y0] >>

\* dims of the Sum operator of a block
SumDims(nx_, ny_, inner_) == <<nx_ - inner_, ny_ - inner_>>

\* pylops.Sum(dims=(nx-inner, ny-inner), dir=0) * Bilinear(XYrot, dims=(nx, ny))
Block(nx_, ny_, inner_, XYrot) ==
  Product(Sum(SumDims(nx_, ny_, inner_)), Bilinear(XYrot, <<nx_, ny_>>))

\* Mutant of AppendOp: the operator is put in front.
AppendOp_front(Rops, op) == <<op>> \o Rops

\* Rops.append(op)
AppendOp(Rops, op) == Append(Rops, op)

\* The call binds the parameters; the grid is created, the angles converted.
RR_Grid ==
  /\ pc = "call"
  /\ LET nx_ == nx
         ny_ == ny
         x0  == nx_ \div 2
         y0  == ny_ \div 2
         x   == GridAxis(nx_, inner, x0)
         y   == GridAxis(ny_, inner, y0)
     IN rr' = [NoLocals EXCEPT !.dims = <<nx, ny>>, !.inner = inner,
                               !.nx = nx_, !.ny = ny_, !.x0 = x0, !.y0 = y0,
                               !.x = x, !.y = y, !.XY = meshgrid_ij(x, y),
                               !.thetas = deg2rad(thetas), !.Rops = <<>>]
  /\ pc' = "for"
  /\ UNCHANGED <<nx, ny, inner, thetas, Radop, image, projection1, ydata, xadj, varsGrid, varsMse, varsRun>>

\* for theta in thetas: R = ...; XYrot = R @ XY
RR_Rotate ==
  /\ pc = "for"
  /\ rr.k < Len(rr.thetas)
  /\ LET theta == rr.thetas[rr.k + 1]
     IN rr' = [rr EXCEPT !.k = @ + 1, !.theta = theta, !.XYrot = Rotate(theta, rr.XY)]
  /\ pc' = "recenter"
  /\ UNCHANGED <<nx, ny, inner, thetas, Radop, image, projection1, ydata, xadj, varsGrid, varsMse, varsRun>>

\* Mutant of RR_Recenter: the shift is also applied to XY.
RR_Recenter_shared ==
  /\ pc = "recenter"
  /\ rr' = [rr EXCEPT !.XYrot = Recenter(rr.theta, rr.XYrot, rr.x0, rr.y0),
                      !.XY = Recenter([d |-> 1], rr.XY, rr.x0, rr.y0)]
  /\ pc' = "append"
  /\ UNCHANGED <<nx, ny, inner, thetas, Radop, image, projection1, ydata, xadj, varsGrid, varsMse, varsRun>>

\* XYrot[0] += x0; XYrot[1] += y0
RR_Recenter ==
  /\ pc = "recenter"
  /\ rr' = [rr EXCEPT !.XYrot = Recenter(rr.theta, rr.XYrot, rr.x0, rr.y0)]
  /\ pc' = "append"
  /\ UNCHANGED <<nx, ny, inner, thetas, Radop, image, projection1, ydata, xadj, varsGrid, varsMse, varsRun>>

\* Rops.append(Sum * Bilinear); a shape mismatch raises out of the call
RR_Append ==
  /\ pc = "append"
  /\ LET op == Block(rr.nx, rr.ny, rr.inner, rr.XYrot)
     IN IF IsOp(op)
        THEN /\ rr' = [rr EXCEPT !.Rops = AppendOp(rr.Rops, op)]
             /\ pc' = "for"
        ELSE /\ rr' = rr
             /\ pc' = "raised"
  /\ UNCHANGED <<nx, ny, inner, thetas, Radop, image, projection1, ydata, xadj, varsGrid, varsMse, varsRun>>

\* Radop = pylops.VStack(Rops); return Radop
RR_Stack ==
  /\ pc = "for"
  /\ rr.k = Len(rr.thetas)
  /\ LET V == VStack(rr.Rops)
     IN IF IsOp(V)
        THEN /\ Radop' = V
             /\ pc' = "built"
        ELSE /\ Radop' = Radop
             /\ pc' = "raised"
  /\ rr' = NoLocals
  /\ UNCHANGED <<nx, ny, inner, thetas, image, projection1, ydata, xadj, varsGrid, varsMse, varsRun>>

\* a.reshape(n1, n2)
reshape(a, n1, n2) ==
  IF Len(a) = n1 * n2 THEN [kind |-> "array", shape |-> <<n1, n2>>, v |-> a] ELSE ValueError

\* projection1 = Radop * image.ravel()
\* projection1 = projection1.reshape(len(thetas), ny-inner)
ApplyForward ==
  /\ pc = "built"
  /\ \E img \in Vectors(nx * ny) :
       /\ image' = img
       /\ projection1' = IF Applicable(Radop)
                         THEN reshape(VStack_matvec(Radop, img), Len(thetas), ny - inner)
                         ELSE Undefined
  /\ pc' = "forward"
  /\ UNCHANGED <<nx, ny, inner, thetas, rr, Radop, ydata, xadj, varsGrid, varsMse, varsRun>>

\* Radop.H * y, as the solvers apply it to a data vector
ApplyAdjoint ==
  /\ pc = "built"
  /\ \E y \in Vectors(Radop.shape[1]) :
       /\ ydata' = y
       /\ xadj' = IF Applicable(Radop) THEN [kind |-> "array", shape |-> <<nx * ny>>, v |-> VStack_rmatvec(Radop, y)]
                      ELSE Undefined
  /\ pc' = "adjoint"
  /\ UNCHANGED <<nx, ny, inner, thetas, rr, Radop, image, projection1, varsGrid, varsMse, varsRun>>

Init ==
  /\ nx \in Sides
  /\ ny \in Sides
  /\ inner \in Inners
  /\ thetas \in ThetaLists
  /\ pc = "call"
  /\ rr = NoLocals
  /\ Radop = None
  /\ image = <<>>
  /\ projection1 = None
  /\ ydata = <<>>
  /\ xadj = None
  /\ grid = IdleGrid
  /\ mse = IdleMse
  /\ nb = None
  /\ log = <<>>
  /\ raised = None

Next ==
  \/ RR_Grid
  \/ RR_Rotate
  \/ RR_Recenter
  \/ RR_Append
  \/ RR_Stack
  \/ ApplyForward
  \/ ApplyAdjoint

Spec == Init /\ [][Next]_vars

(***************************************************************************)
(* The grid of the notebook: nx = ny = 300, inner = 100, one row of the    *)
(* grid at a time.                                                         *)
(***************************************************************************)
\* Row i (1-based) of the centred grid XY, as RadonRotate creates it.
Grid_Row ==
  /\ pc = "grid"
  /\ \E i \in 1..(nx - inner) :
       grid' = [IdleGrid EXCEPT !.i = i,
                  !.XY = meshgrid_ij(<<GridAxis(nx, inner, nx \div 2)[i]>>,
                                     GridAxis(ny, inner, ny \div 2))]
  /\ pc' = "grid_rotate"
  /\ UNCHANGED <<nx, ny, inner, thetas, rr, Radop, image, projection1, ydata, xadj, varsMse, varsRun>>

\* XYrot = R @ XY for one of the angles
Grid_Rotate ==
  /\ pc = "grid_rotate"
  /\ \E th \in Angles :
       LET theta == deg2rad(<<th>>)[1]
       IN  grid' = [grid EXCEPT !.theta = theta, !.XYrot = Rotate(theta, grid.XY)]
  /\ pc' = "grid_recenter"
  /\ UNCHANGED <<nx, ny, inner, thetas, rr, Radop, image, projection1, ydata, xadj, varsMse, varsRun>>

\* XYrot[0] += x0; XYrot[1] += y0
Grid_Recenter ==
  /\ pc = "grid_recenter"
  /\ grid' = [grid EXCEPT !.XYrot = Recenter(grid.theta, grid.XYrot, nx \div 2, ny \div 2)]
  /\ pc' = "grid_done"
  /\ UNCHANGED <<nx, ny, inner, thetas, rr, Radop, image, projection1, ydata, xadj, varsMse, varsRun>>

InitGrid ==
  /\ nx = NotebookSide
  /\ ny = NotebookSide
  /\ inner = NotebookInner
  /\ thetas = <<>>
  /\ pc = "grid"
  /\ rr = NoLocals
  /\ Radop = None
  /\ image = <<>>
  /\ projection1 = None
  /\ ydata = <<>>
  /\ xadj = None
  /\ grid = IdleGrid
  /\ mse = IdleMse
  /\ nb = None
  /\ log = <<>>
  /\ raised = None

NextGrid == Grid_Row \/ Grid_Rotate \/ Grid_Recenter

SpecGrid == InitGrid /\ [][NextGrid]_vars

Min(a, b) == IF a <= b THEN a ELSE b

\* C4: for the notebook's values every rotated coordinate handed to Bilinear
\* lies inside the image grid, 0 <= XYrot[0] <= nx-1 and 0 <= XYrot[1] <= ny-1,
\* and every centred grid point (x, y) has
\* x*x + y*y <= min(x0, nx-1-x0, y0, ny-1-y0)^2, which gives it for any angle.
C4_RotatedGridInsideImage ==
  pc = "grid_done" =>
    /\ nx = 300 /\ ny = 300 /\ inner = 100
    /\ Len(grid.XYrot[1]) = ny - inner
    /\ \A p \in 1..Len(grid.XYrot[1]) :
         /\ 0 <= grid.XYrot[1][p] /\ grid.XYrot[1][p] <= Den * (nx - 1)
         /\ 0 <= grid.XYrot[2][p] /\ grid.XYrot[2][p] <= Den * (ny - 1)
         /\ LET r == Min(Min(nx \div 2, nx - 1 - (nx \div 2)),
                         Min(ny \div 2, ny - 1 - (ny \div 2)))
            IN grid.XY[1][p] * grid.XY[1][p] + grid.XY[2][p] * grid.XY[2][p] <= r * r

\* C4 witness: the corner of the grid farthest from the centre, rotated by an
\* angle that is no multiple of 90 degrees.
C4_Witness ==
  /\ pc = "grid_done"
  /\ grid.i = 1
  /\ grid.theta.s # 0 /\ grid.theta.c # 0
  /\ grid.XY[1][1] = -100 /\ grid.XY[2][1] = -100

(***************************************************************************)
(* The error metric of a reconstruction                                    *)
(***************************************************************************)
\* The indices (0-based) that a[pad//2:-pad//2] keeps of an axis of n entries:
\* -pad//2 is floor(-pad/2); a stop of 0 keeps nothing.
WindowIdx(n, pad) ==
  LET start == pad \div 2
      stop  == (0 - pad) \div 2
  IN  IF stop = 0 THEN {}
      ELSE {i \in 0..(n - 1) : start <= i /\ i < n + stop}

\* np.linalg.norm of the difference of two n-by-n arrays over the window:
\* the square root of the sum of the squared differences.  The value is
\* held by its square.
linalg_norm(n, pad, a, b) ==
  LET W    == WindowIdx(n, pad)
      lo   == pad \div 2
      cnt  == Cardinality(W)
      sq   == [q \in 1..(cnt * cnt) |->
                 LET i == lo + ((q - 1) \div cnt)
                     j == lo + ((q - 1) % cnt)
                     d == a[i * n + j + 1] - b[i * n + j + 1]
                 IN  d * d]
  IN  [kind |-> "sqrt", of |-> SumTo(sq, cnt * cnt)]

\* mse_fbp = np.linalg.norm(image_fbp[pad//2:-pad//2, ...] - image[...])
Mse_fbp ==
  /\ pc = "metric"
  /\ mse' = [mse EXCEPT !.which = "fbp",
                        !.value = linalg_norm(mse.n, mse.pad, mse.rec, mse.image)]
  /\ pc' = "metric_done"
  /\ UNCHANGED <<nx, ny, inner, thetas, rr, Radop, image, projection1, ydata, xadj, varsGrid, varsRun>>

\* mse_l2 = np.linalg.norm(image_l2[...] - image[...])
Mse_l2 ==
  /\ pc = "metric"
  /\ mse' = [mse EXCEPT !.which = "l2",
                        !.value = linalg_norm(mse.n, mse.pad, mse.rec, mse.image)]
  /\ pc' = "metric_done"
  /\ UNCHANGED <<nx, ny, inner, thetas, rr, Radop, image, projection1, ydata, xadj, varsGrid, varsRun>>

\* mse_tv = np.linalg.norm(image_tv[...] - image[...])
Mse_tv ==
  /\ pc = "metric"
  /\ mse' = [mse EXCEPT !.which = "tv",
                        !.value = linalg_norm(mse.n, mse.pad, mse.rec, mse.image)]
  /\ pc' = "metric_done"
  /\ UNCHANGED <<nx, ny, inner, thetas, rr, Radop, image, projection1, ydata, xadj, varsGrid, varsRun>>

\* mse_tvw = np.linalg.norm(image_tvw[...] - image[...]) in radon_morereg
Mse_tvw ==
  /\ pc = "metric"
  /\ mse' = [mse EXCEPT !.which = "tvw",
                        !.value = linalg_norm(mse.n, mse.pad, mse.rec, mse.image)]
  /\ pc' = "metric_done"
  /\ UNCHANGED <<nx, ny, inner, thetas, rr, Radop, image, projection1, ydata, xadj, varsGrid, varsRun>>

\* Images of n*n pixels: all zero, or a checkerboard of zeros and ones.
MseImages(n) ==
  { [q \in 1..(n * n) |-> 0],
    [q \in 1..(n * n) |-> (((q - 1) \div n) + ((q - 1) % n)) % 2] }

\* Reconstructions of an image: the image itself, the image off by one
\* everywhere, and the image off by 1 or 2 at one pixel.
MseReconstructions(n, img) ==
  {img, [q \in 1..(n * n) |-> img[q] + 1]}
    \cup {[img EXCEPT ![q] = @ + e] : q \in 1..(n * n), e \in {1, 2}}

InitMse ==
  /\ nx = 0 /\ ny = 0 /\ inner = 0
  /\ thetas = <<>>
  /\ pc = "metric"
  /\ rr = NoLocals
  /\ Radop = None
  /\ image = <<>>
  /\ projection1 = None
  /\ ydata = <<>>
  /\ xadj = None
  /\ grid = IdleGrid
  /\ \E pad \in 0..MaxPad, m \in 1..MaxPhantom :
       \E img \in MseImages(m + 2 * pad) :
         \E rec \in MseReconstructions(m + 2 * pad, img) :
           mse = [pad |-> pad, n |-> m + 2 * pad, image |-> img, rec |-> rec,
                  which |-> "none", value |-> None]
  /\ nb = None
  /\ log = <<>>
  /\ raised = None

NextMse == Mse_fbp \/ Mse_l2 \/ Mse_tv \/ Mse_tvw

SpecMse == InitMse /\ [][NextMse]_vars

\* The sum of the squared differences over the window, and its pixel count.
WindowPixels == Cardinality(WindowIdx(mse.n, mse.pad)) * Cardinality(WindowIdx(mse.n, mse.pad))
WindowSquares ==
  LET W == WindowIdx(mse.n, mse.pad)
      f == [q \in 1..(mse.n * mse.n) |->
              IF ((q - 1) \div mse.n) \in W /\ ((q - 1) % mse.n) \in W
              THEN (mse.rec[q] - mse.image[q]) * (mse.rec[q] - mse.image[q])
              ELSE 0]
  IN  SumTo(f, mse.n * mse.n)

\* C5: the value printed as MSE is the mean squared error over the window:
\* value = WindowSquares / WindowPixels.  The value v >= 0 is held by its
\* square, so v = S/N is v*v * N*N = S*S.
C5_PrintedIsMeanSquaredError ==
  (mse.which # "none" /\ WindowPixels > 0) =>
     mse.value.of * WindowPixels * WindowPixels = WindowSquares * WindowSquares

(***************************************************************************)
(* The projection of an image, written from the description of the         *)
(* operator: for the angle theta, sample (i, j) of the rotated grid        *)
(* (0 <= i < nx-inner, 0 <= j < ny-inner) lies at the centred point        *)
(* (i - nx//2 + inner//2, j - ny//2 + inner//2) rotated by theta about     *)
(* (nx//2, ny//2).  Coordinates are numerators over theta.d, values are    *)
(* multiples of 1/(theta.d * theta.d).                                     *)
(***************************************************************************)
SampleX(theta, i, j) ==
    theta.c * (i - (nx \div 2) + (inner \div 2))
  - theta.s * (j - (ny \div 2) + (inner \div 2))
  + theta.d * (nx \div 2)

SampleY(theta, i, j) ==
    theta.s * (i - (nx \div 2) + (inner \div 2))
  + theta.c * (j - (ny \div 2) + (inner \div 2))
  + theta.d * (ny \div 2)

GridRows == 0..(nx - inner - 1)
GridCols == 0..(ny - inner - 1)

\* The four pixels around every sample of the grid of theta are in the image.
SamplesInside(theta) ==
  \A i \in GridRows, j \in GridCols :
    /\ 0 <= SampleX(theta, i, j) /\ SampleX(theta, i, j) < theta.d * (nx - 1)
    /\ 0 <= SampleY(theta, i, j) /\ SampleY(theta, i, j) < theta.d * (ny - 1)

AllSamplesInside == \A k \in 1..Len(thetas) : SamplesInside(thetas[k])

\* Hat function: the weight, over d, that a sample at coordinate num/d gives
\* to the pixel index a.
Hat(d, num, a) ==
  IF d * (a - 1) < num /\ num <= d * a THEN num - d * (a - 1)
  ELSE IF d * a < num /\ num < d * (a + 1) THEN d * (a + 1) - num
  ELSE 0

\* Weight of pixel (a, b) in the bilinear interpolation at sample (i, j).
Weight(theta, i, j, a, b) ==
  Hat(theta.d, SampleX(theta, i, j), a) * Hat(theta.d, SampleY(theta, i, j), b)

Pixel(img, a, b) == img[a * ny + b + 1]

RECURSIVE SumOver(_, _, _)
\* the sum of f[e] for the integers e of lo..hi
SumOver(f, lo, hi) == IF hi < lo THEN 0 ELSE f[hi] + SumOver(f, lo, hi - 1)

\* Bilinear interpolation of img at sample (i, j) of the grid of theta.
Interpolated(theta, img, i, j) ==
  LET fx == SampleX(theta, i, j) \div theta.d
      fy == SampleY(theta, i, j) \div theta.d
  IN  SumOver([a \in fx..(fx + 1) |->
         SumOver([b \in fy..(fy + 1) |->
            Weight(theta, i, j, a, b) * Pixel(img, a, b)], fy, fy + 1)], fx, fx + 1)

\* Entry j of the projection for theta: the sum over axis 0 of the rotated image.
Projected(theta, img, j) ==
  SumOver([i \in GridRows |-> Interpolated(theta, img, i, j)], 0, nx - inner - 1)

\* Pixel (a, b) of the back-projection of the slice sl (ny-inner samples) for
\* theta: the slice spread along axis 0, then the transposed interpolation.
BackProjected(theta, sl, a, b) ==
  SumOver([i \in GridRows |->
     SumOver([j \in GridCols |-> Weight(theta, i, j, a, b) * sl[j + 1]],
             0, ny - inner - 1)], 0, nx - inner - 1)

Slice(v, k) == [r \in 1..(ny - inner) |-> v[(k - 1) * (ny - inner) + r]]

\* C1: RadonRotate returns a stack of one Sum * Bilinear block per entry of
\* thetas, in the order of thetas, each on the grid rotated by its angle;
\* applied to an image it yields len(thetas)*(ny-inner) values, and entries
\* k*(ny-inner) .. (k+1)*(ny-inner)-1 are the projection for thetas[k]
\* (whenever the samples of every angle lie inside the image).
C1_StackedProjections ==
  /\ pc # "raised"
  /\ pc \in {"built", "forward", "adjoint"} =>
       /\ Radop.kind = "VStack"
       /\ Len(Radop.ops) = Len(thetas)
       /\ Radop.shape = <<Len(thetas) * (ny - inner), nx * ny>>
       /\ \A k \in 1..Len(thetas) :
            /\ Radop.ops[k].S.dims = <<nx - inner, ny - inner>>
            /\ Radop.ops[k].B.dims = <<nx, ny>>
            /\ \A i \in GridRows, j \in GridCols :
                 /\ Radop.ops[k].B.iava[1][i * (ny - inner) + j + 1] = SampleX(thetas[k], i, j)
                 /\ Radop.ops[k].B.iava[2][i * (ny - inner) + j + 1] = SampleY(thetas[k], i, j)
  /\ (pc = "forward" /\ AllSamplesInside) =>
       /\ projection1.kind = "array"
       /\ projection1.shape = <<Len(thetas), ny - inner>>
       /\ Len(projection1.v) = Len(thetas) * (ny - inner)
       /\ \A k \in 1..Len(thetas) : \A j \in GridCols :
            projection1.v[(k - 1) * (ny - inner) + j + 1] = Projected(thetas[k], image, j)

\* C1 witness: two different angles applied to an image, the two slices differ.
C1_Witness ==
  /\ pc = "forward"
  /\ AllSamplesInside
  /\ Len(thetas) = 2
  /\ thetas[1] # thetas[2]
  /\ projection1.kind = "array"
  /\ Slice(projection1.v, 1) # Slice(projection1.v, 2)

C9_AdjointIsSumOfBackProjections ==
  (pc = "adjoint" /\ AllSamplesInside) =>
     /\ xadj.kind = "array"
     /\ Len(xadj.v) = nx * ny
     /\ \A a \in 0..(nx - 1), b \in 0..(ny - 1) :
          Pixel(xadj.v, a, b) =
            SumOver([k \in 1..Len(thetas) |->
                       BackProjected(thetas[k], Slice(ydata, k), a, b)], 1, Len(thetas))

\* C9 witness: a data vector that is non-zero only in the second slice is
\* back-projected to a non-zero image.
C9_Witness ==
  /\ pc = "adjoint"
  /\ AllSamplesInside
  /\ Len(thetas) = 2
  /\ thetas[1] # thetas[2]
  /\ xadj.kind = "array"
  /\ \A r \in 1..(ny - inner) : ydata[r] = 0
  /\ \E q \in 1..(nx * ny) : xadj.v[q] # 0

\* C10: for the angle 0 the block computes, for every j, the sum over i of
\* image[inner//2 + i, inner//2 + j]; with inner = 2*pad that window is rows
\* and columns pad .. n-pad-1.
C10_AngleZeroSumsWindow ==
  /\ (pc = "forward" /\ AllSamplesInside) =>
       /\ projection1.kind = "array"
       /\ \A k \in 1..Len(thetas) :
            (thetas[k].s = 0 /\ thetas[k].c = thetas[k].d) =>
              \A j \in GridCols :
                projection1.v[(k - 1) * (ny - inner) + j + 1] =
                  Den * Den * SumOver([i \in GridRows |->
                      Pixel(image, (inner \div 2) + i, (inner \div 2) + j)], 0, nx - inner - 1)
  /\ \A pad_ \in 0..inner :
       inner = 2 * pad_ =>
         /\ inner \div 2 = pad_
         /\ (inner \div 2) + (nx - inner) - 1 = nx - pad_ - 1
         /\ (inner \div 2) + (ny - inner) - 1 = ny - pad_ - 1

\* C10 witness: the block of angle 0 applied to an image, with a non-zero sum.
C10_Witness ==
  /\ pc = "forward"
  /\ AllSamplesInside
  /\ inner >= 2
  /\ projection1.kind = "array"
  /\ \E k \in 1..Len(thetas) :
       /\ thetas[k].s = 0 /\ thetas[k].c = thetas[k].d
       /\ \E j \in GridCols : projection1.v[(k - 1) * (ny - inner) + j + 1] # 0

(***************************************************************************)
(* The run of the notebook, statement by statement, cells top to bottom.   *)
(* Arrays and library operators are held by their shape and provenance;    *)
(* Radop is built by the RadonRotate actions above.  A statement whose     *)
(* names are not bound raises NameError, a library call whose arguments    *)
(* do not fit raises ValueError, and a library call may also fail for a    *)
(* reason of its own (at most one such failure per run).  No cell has a    *)
(* try/except: an exception ends the cell, the frame of a running function *)
(* is discarded, and the run goes on with the next cell.                   *)
(***************************************************************************)
\* The level of the wavelet transform in radon_morereg.
WaveletLevel == 5

\* Values at the level of the run.
Arr(shape, src) == [kind |-> "array", shape |-> shape, src |-> src]
LinOp(name, rows, cols) == [kind |-> "op", name |-> name, shape |-> <<rows, cols>>]
Scalar(src) == [kind |-> "scalar", src |-> src]

\* a.size
Size(a) == IF Len(a.shape) = 1 THEN a.shape[1] ELSE a.shape[1] * a.shape[2]

\* a.T of a shape
Transposed(shape) == IF Len(shape) = 2 THEN <<shape[2], shape[1]>> ELSE shape

\* numpy broadcasting of two shapes of the same rank
Broadcastable(s, t) ==
  /\ Len(s) = Len(t)
  /\ \A k \in 1..Len(s) : s[k] = t[k] \/ s[k] = 1 \/ t[k] = 1

Max(a, b) == IF a >= b THEN a ELSE b

\* Mutant of SliceLen: the upper bound of the slice is included.
SliceLen_inclusive(n, lo, hi) ==
  LET norm(i) == IF i < 0 THEN Max(i + n, 0) ELSE Min(i, n)
  IN  Max(Min(norm(hi) + 1, n) - norm(lo), 0)

\* len(a[lo:hi]) for an axis of n entries (negative bounds count from the end)
SliceLen(n, lo, hi) ==
  LET norm(i) == IF i < 0 THEN Max(i + n, 0) ELSE Min(i, n)
  IN  Max(norm(hi) - norm(lo), 0)

\* len(a[::2])
EveryOther(n) == (n + 1) \div 2

\* The shape of a[pad//2:-pad//2, pad//2:-pad//2]
WindowShape(a, pad) ==
  <<Cardinality(WindowIdx(a.shape[1], pad)), Cardinality(WindowIdx(a.shape[2], pad))>>

\* Rows of skimage radon(image, circle=False): ceil(sqrt(2) * max(image.shape))
RadonRows(n) == CHOOSE d \in n..(2 * n) : d * d >= 2 * n * n /\ (d - 1) * (d - 1) < 2 * n * n

\* Side of skimage iradon(projection, circle=False): floor(sqrt(rows^2 / 2))
IradonSide(rows) == CHOOSE k \in 0..rows : 2 * k * k <= rows * rows /\ 2 * (k + 1) * (k + 1) > rows * rows

\* Side of the padded axis of pylops DWT2D: max(2^ceil(log2(n)), 2^level)
DWT2DSide(n, level) ==
  LET pow2 == {2 ^ k : k \in 0..(n + level)}
  IN  CHOOSE p \in pow2 : /\ p >= n /\ p >= 2 ^ level
                          /\ \A q \in pow2 : (q >= n /\ q >= 2 ^ level) => p <= q

\* The number of wavenumbers the mask of radon_kk selects is not computed:
\* at least one line of nx samples, at most all of them.
MaskCounts(nx_, ny_) == {nx_, nx_ * ny_}

RECURSIVE AngleRange(_)
\* np.arange(thetamin, thetamax, dtheta): thetamin = 0 first, then increasing
AngleRange(n) ==
  LET all == << [unit |-> "deg", c |-> 5, s |-> 0, d |-> 5],
                [unit |-> "deg", c |-> 4, s |-> 3, d |-> 5],
                [unit |-> "deg", c |-> 0, s |-> 5, d |-> 5],
                [unit |-> "deg", c |-> -3, s |-> 4, d |-> 5] >>
  IN  IF n = 0 THEN <<>> ELSE Append(AngleRange(n - 1), all[((n - 1) % 4) + 1])
RunThetas == {AngleRange(n) : n \in 1..MaxThetas}

\* An event of the run.
Ev(ev, line, what, info) == [ev |-> ev, line |-> line, what |-> what, info |-> info]

\* The notebook-level names (other than nx, ny, inner, thetas, Radop and
\* projection1, which are variables of the model) and the local names of
\* the exercise functions, before they are bound.
NoLocal ==
  [Wop |-> None, DWop |-> None, mu |-> None, lamda |-> None,
   niter |-> None, niterinner |-> None, image_tvw |-> None, mse_tvw |-> None,
   sigman |-> None, n |-> None, projection_n |-> None, projection1_n |-> None,
   Fop |-> None, thetas |-> None, kx |-> None, mask |-> None,
   Rop |-> None, kk |-> None, kkrestr |-> None, KOp |-> None,
   y |-> None, D2op |-> None, image_l2 |-> None, Dop |-> None,
   image_tv |-> None]
\* The state of the kernel before the first cell: nothing bound; lit holds
\* the values of the notebook's literals.
Kernel(lit) ==
  [lit |-> lit, names |-> {}, fn |-> "", lnames |-> {}, local |-> NoLocal,
   v |->
  [image |-> None, pad |-> None, projection |-> None, image_fbp |-> None,
     mse_fbp |-> None, mvec |-> None, rmvec |-> None, Fop |-> None,
     image_adj |-> None, x0 |-> None, y0 |-> None, XY |-> None,
     theta |-> None, XYrot |-> None, Rop |-> None, imagerot |-> None,
     RadonRotate |-> None, D2op |-> None, image_l2 |-> None, mse_l2 |-> None,
     Dop |-> None, mu |-> None, lamda |-> None, niter |-> None,
     niterinner |-> None, image_tv |-> None, mse_tv |-> None, radon_morereg |-> None,
     radon_noise |-> None, radon_kk |-> None]]

\* The names a statement may read.
Readable(globals, locals) ==
  /\ globals \subseteq nb.names \cup (IF IsOp(Radop) THEN {"Radop"} ELSE {})
  /\ locals \subseteq nb.lnames

\* An exception leaves the statement: after the events `pre` of the attempt
\* the error is raised, the frame of a running function is discarded, the
\* rest of the cell does not run and the next cell is run.  `lost` are the
\* notebook-level names the cell has not bound.
Abort(line, err, pre, lost, next, r) ==
  /\ log' = log \o pre \o <<Ev("raise", line, err, lost)>>
  /\ nb' = [nb EXCEPT !.fn = "", !.lnames = {}, !.local = NoLocal]
  /\ pc' = next
  /\ raised' = r
  /\ rr' = NoLocals
  /\ UNCHANGED <<nx, ny, inner, thetas, Radop, image, projection1, ydata, xadj, varsGrid, varsMse>>

\* image = shepp_logan_phantom()[::2, ::2]
L109_phantom ==
  /\ pc = "L109"
  /\ log' = log \o <<Ev("bind", 109, "image", Arr(<<EveryOther(nb.lit.phantom), EveryOther(nb.lit.phantom)>>, "phantom"))>>
  /\ nb' = [nb EXCEPT !.v.image = Arr(<<EveryOther(nb.lit.phantom), EveryOther(nb.lit.phantom)>>, "phantom"),
          !.names = @ \cup {"image"}]
  /\ pc' = "L112"
  /\ UNCHANGED <<nx, ny, inner, thetas, rr, Radop, image, projection1, ydata, xadj, varsGrid, varsMse, raised>>

\* pad = 50
L112_pad ==
  /\ pc = "L112"
  /\ log' = log \o <<Ev("bind", 112, "pad", nb.lit.pad)>>
  /\ nb' = [nb EXCEPT !.v.pad = nb.lit.pad,
          !.names = @ \cup {"pad"}]
  /\ pc' = "L113"
  /\ UNCHANGED <<nx, ny, inner, thetas, rr, Radop, image, projection1, ydata, xadj, varsGrid, varsMse, raised>>

\* image = np.pad(image, ((pad, pad), (pad, pad)))
L113_np_pad ==
  /\ pc = "L113"
  /\ IF ~Readable({"image", "pad"}, {})
     THEN Abort(113, "NameError", <<>>, {"image"}, "L144", raised)
     ELSE
          /\ log' = log \o <<Ev("bind", 113, "image", Arr(<<nb.v.image.shape[1] + 2 * nb.v.pad, nb.v.image.shape[2] + 2 * nb.v.pad>>, nb.v.image.src))>>
          /\ nb' = [nb EXCEPT !.v.image = Arr(<<nb.v.image.shape[1] + 2 * nb.v.pad, nb.v.image.shape[2] + 2 * nb.v.pad>>, nb.v.image.src),
                  !.names = @ \cup {"image"}]
          /\ pc' = "L115"
          /\ UNCHANGED <<nx, ny, inner, thetas, rr, Radop, image, projection1, ydata, xadj, varsGrid, varsMse, raised>>

\* plt.imshow(image)
L115_plot ==
  /\ pc = "L115"
  /\ IF ~Readable({"image"}, {})
     THEN Abort(115, "NameError", <<>>, {}, "L144", raised)
     ELSE
          /\ log' = log \o <<Ev("plot", 115, "plt", {"image"})>>
          /\ nb' = nb
          /\ pc' = "L144"
          /\ UNCHANGED <<nx, ny, inner, thetas, rr, Radop, image, projection1, ydata, xadj, varsGrid, varsMse, raised>>

\* thetas = np.arange(thetamin, thetamax, dtheta)
L144_thetas ==
  /\ pc = "L144"
  /\ log' = log \o <<Ev("bind", 144, "thetas", nb.lit.thetas)>>
  /\ nb' = [nb EXCEPT !.names = @ \cup {"thetas"}]
  /\ thetas' = nb.lit.thetas
  /\ pc' = "L148"
  /\ UNCHANGED <<nx, ny, inner, rr, Radop, image, projection1, ydata, xadj, varsGrid, varsMse, raised>>

\* projection = radon(image, theta=thetas, circle=False)
L148_radon ==
  /\ pc = "L148"
  /\ IF ~Readable({"image", "thetas"}, {})
     THEN Abort(148, "NameError", <<>>, {"projection"}, "L176", raised)
     ELSE LET c == Ev("call", 148, "radon", {}) IN
          \/ /\ log' = log \o <<c,
                     Ev("return", 148, "radon", {}),
                     Ev("bind", 148, "projection", Arr(<<RadonRows(Max(nb.v.image.shape[1], nb.v.image.shape[2])), Len(thetas)>>, "radon"))>>
             /\ nb' = [nb EXCEPT !.v.projection = Arr(<<RadonRows(Max(nb.v.image.shape[1], nb.v.image.shape[2])), Len(thetas)>>, "radon"),
                     !.names = @ \cup {"projection"}]
             /\ pc' = "L150"
             /\ UNCHANGED <<nx, ny, inner, thetas, rr, Radop, image, projection1, ydata, xadj, varsGrid, varsMse, raised>>
          \/ /\ raised = None
             /\ Abort(148, "error", <<c>>, {"projection"}, "L176", [line |-> 148, what |-> "radon"])

\* plots of image and projection
L150_plot ==
  /\ pc = "L150"
  /\ IF ~Readable({"image", "projection"}, {})
     THEN Abort(150, "NameError", <<>>, {}, "L176", raised)
     ELSE
          /\ log' = log \o <<Ev("plot", 150, "plt", {"image", "projection"})>>
          /\ nb' = nb
          /\ pc' = "L176"
          /\ UNCHANGED <<nx, ny, inner, thetas, rr, Radop, image, projection1, ydata, xadj, varsGrid, varsMse, raised>>

\* image_fbp = iradon(projection, theta=thetas, circle=False)
L176_iradon ==
  /\ pc = "L176"
  /\ IF ~Readable({"projection", "thetas"}, {})
     THEN Abort(176, "NameError", <<>>, {"image_fbp", "mse_fbp"}, "L211", raised)
     ELSE LET c == Ev("call", 176, "iradon", {}) IN
          IF ~(Len(thetas) = nb.v.projection.shape[2])
          THEN Abort(176, "ValueError", <<c>>, {"image_fbp", "mse_fbp"}, "L211", raised)
          ELSE
               \/ /\ log' = log \o <<c,
                          Ev("return", 176, "iradon", {}),
                          Ev("bind", 176, "image_fbp", Arr(<<IradonSide(nb.v.projection.shape[1]), IradonSide(nb.v.projection.shape[1])>>, "iradon"))>>
                  /\ nb' = [nb EXCEPT !.v.image_fbp = Arr(<<IradonSide(nb.v.projection.shape[1]), IradonSide(nb.v.projection.shape[1])>>, "iradon"),
                          !.names = @ \cup {"image_fbp"}]
                  /\ pc' = "L179"
                  /\ UNCHANGED <<nx, ny, inner, thetas, rr, Radop, image, projection1, ydata, xadj, varsGrid, varsMse, raised>>
               \/ /\ raised = None
                  /\ Abort(176, "error", <<c>>, {"image_fbp", "mse_fbp"}, "L211", [line |-> 176, what |-> "iradon"])

\* mse_fbp = np.linalg.norm(image_fbp[w] - image[w])
L179_mse_fbp ==
  /\ pc = "L179"
  /\ IF ~Readable({"image_fbp", "image", "pad"}, {})
     THEN Abort(179, "NameError", <<>>, {"mse_fbp"}, "L211", raised)
     ELSE
          IF ~(Broadcastable(WindowShape(nb.v.image_fbp, nb.v.pad), WindowShape(nb.v.image, nb.v.pad)))
          THEN Abort(179, "ValueError", <<>>, {"mse_fbp"}, "L211", raised)
          ELSE
               /\ log' = log \o <<Ev("bind", 179, "mse_fbp", Scalar("image_fbp"))>>
               /\ nb' = [nb EXCEPT !.v.mse_fbp = Scalar("image_fbp"),
                       !.names = @ \cup {"mse_fbp"}]
               /\ pc' = "L181"
               /\ UNCHANGED <<nx, ny, inner, thetas, rr, Radop, image, projection1, ydata, xadj, varsGrid, varsMse, raised>>

\* plots of image_fbp and its error
L181_plot ==
  /\ pc = "L181"
  /\ IF ~Readable({"image_fbp", "image", "pad"}, {})
     THEN Abort(181, "NameError", <<>>, {}, "L211", raised)
     ELSE
          IF ~(Broadcastable(WindowShape(nb.v.image_fbp, nb.v.pad), WindowShape(nb.v.image, nb.v.pad)))
          THEN Abort(181, "ValueError", <<>>, {}, "L211", raised)
          ELSE
               /\ log' = log \o <<Ev("plot", 181, "plt", {"image_fbp", "image"})>>
               /\ nb' = nb
               /\ pc' = "L211"
               /\ UNCHANGED <<nx, ny, inner, thetas, rr, Radop, image, projection1, ydata, xadj, varsGrid, varsMse, raised>>

\* mvec = lambda ...; rmvec = lambda ...
L211_lambdas ==
  /\ pc = "L211"
  /\ log' = log \o <<Ev("bind", 211, "mvec", [kind |-> "function"]),
          Ev("bind", 211, "rmvec", [kind |-> "function"])>>
  /\ nb' = [nb EXCEPT !.v.mvec = [kind |-> "function"],
          !.v.rmvec = [kind |-> "function"],
          !.names = @ \cup {"mvec", "rmvec"}]
  /\ pc' = "L218"
  /\ UNCHANGED <<nx, ny, inner, thetas, rr, Radop, image, projection1, ydata, xadj, varsGrid, varsMse, raised>>

\* Fop = FunctionOperator(mvec, rmvec, projection.size, image.size)
L218_FunctionOperator ==
  /\ pc = "L218"
  /\ IF ~Readable({"mvec", "rmvec", "projection", "image"}, {})
     THEN Abort(218, "NameError", <<>>, {"Fop"}, "L239", raised)
     ELSE LET c == Ev("call", 218, "FunctionOperator", {}) IN
          \/ /\ log' = log \o <<c,
                     Ev("return", 218, "FunctionOperator", {}),
                     Ev("bind", 218, "Fop", LinOp("FunctionOperator", Size(nb.v.projection), Size(nb.v.image)))>>
             /\ nb' = [nb EXCEPT !.v.Fop = LinOp("FunctionOperator", Size(nb.v.projection), Size(nb.v.image)),
                     !.names = @ \cup {"Fop"}]
             /\ pc' = "L239"
             /\ UNCHANGED <<nx, ny, inner, thetas, rr, Radop, image, projection1, ydata, xadj, varsGrid, varsMse, raised>>
          \/ /\ raised = None
             /\ Abort(218, "error", <<c>>, {"Fop"}, "L239", [line |-> 218, what |-> "FunctionOperator"])

\* projection1 = Fop * image.ravel()
L239_Fop_forward ==
  /\ pc = "L239"
  /\ IF ~Readable({"Fop", "image", "thetas"}, {})
     THEN Abort(239, "NameError", <<>>, {"projection1", "image_adj"}, "L271", raised)
     ELSE LET c == Ev("call", 239, "Fop.matvec", {}) IN
          IF ~(Size(nb.v.image) = nb.v.Fop.shape[2])
          THEN Abort(239, "ValueError", <<c>>, {"projection1", "image_adj"}, "L271", raised)
          ELSE
               \/ /\ log' = log \o <<c,
                          Ev("return", 239, "Fop.matvec", {}),
                          Ev("bind", 239, "projection1", Arr(<<nb.v.Fop.shape[1]>>, "Fop"))>>
                  /\ nb' = [nb EXCEPT !.names = @ \cup {"projection1"}]
                  /\ projection1' = Arr(<<nb.v.Fop.shape[1]>>, "Fop")
                  /\ pc' = "L240"
                  /\ UNCHANGED <<nx, ny, inner, thetas, rr, Radop, image, ydata, xadj, varsGrid, varsMse, raised>>
               \/ /\ raised = None
                  /\ Abort(239, "error", <<c>>, {"projection1", "image_adj"}, "L271", [line |-> 239, what |-> "Fop.matvec"])

\* projection1 = projection.reshape(projection.shape)
L240_reshape ==
  /\ pc = "L240"
  /\ IF ~Readable({"projection"}, {})
     THEN Abort(240, "NameError", <<>>, {"projection1", "image_adj"}, "L271", raised)
     ELSE
          /\ log' = log \o <<Ev("bind", 240, "projection1", Arr(nb.v.projection.shape, nb.v.projection.src))>>
          /\ nb' = [nb EXCEPT !.names = @ \cup {"projection1"}]
          /\ projection1' = Arr(nb.v.projection.shape, nb.v.projection.src)
          /\ pc' = "L243"
          /\ UNCHANGED <<nx, ny, inner, thetas, rr, Radop, image, ydata, xadj, varsGrid, varsMse, raised>>

\* image_adj = Fop.H * projection1.ravel()
L243_Fop_adjoint ==
  /\ pc = "L243"
  /\ IF ~Readable({"Fop", "projection1", "projection", "thetas"}, {})
     THEN Abort(243, "NameError", <<>>, {"image_adj"}, "L271", raised)
     ELSE LET c == Ev("call", 243, "Fop.rmatvec", {}) IN
          IF ~(Size(projection1) = nb.v.Fop.shape[1])
          THEN Abort(243, "ValueError", <<c>>, {"image_adj"}, "L271", raised)
          ELSE
               \/ /\ log' = log \o <<c,
                          Ev("return", 243, "Fop.rmatvec", {}),
                          Ev("bind", 243, "image_adj", Arr(<<nb.v.Fop.shape[2]>>, "Fop.H"))>>
                  /\ nb' = [nb EXCEPT !.v.image_adj = Arr(<<nb.v.Fop.shape[2]>>, "Fop.H"),
                          !.names = @ \cup {"image_adj"}]
                  /\ pc' = "L244"
                  /\ UNCHANGED <<nx, ny, inner, thetas, rr, Radop, image, projection1, ydata, xadj, varsGrid, varsMse, raised>>
               \/ /\ raised = None
                  /\ Abort(243, "error", <<c>>, {"image_adj"}, "L271", [line |-> 243, what |-> "Fop.rmatvec"])

\* image_adj = image_adj.reshape(image.shape)
L244_reshape ==
  /\ pc = "L244"
  /\ IF ~Readable({"image_adj", "image"}, {})
     THEN Abort(244, "NameError", <<>>, {"image_adj"}, "L271", raised)
     ELSE
          IF ~(Size(nb.v.image_adj) = Size(nb.v.image))
          THEN Abort(244, "ValueError", <<>>, {"image_adj"}, "L271", raised)
          ELSE
               /\ log' = log \o <<Ev("bind", 244, "image_adj", Arr(nb.v.image.shape, nb.v.image_adj.src))>>
               /\ nb' = [nb EXCEPT !.v.image_adj = Arr(nb.v.image.shape, nb.v.image_adj.src),
                       !.names = @ \cup {"image_adj"}]
               /\ pc' = "L246"
               /\ UNCHANGED <<nx, ny, inner, thetas, rr, Radop, image, projection1, ydata, xadj, varsGrid, varsMse, raised>>

\* plots of projection and image_adj
L246_plot ==
  /\ pc = "L246"
  /\ IF ~Readable({"projection", "image_adj"}, {})
     THEN Abort(246, "NameError", <<>>, {}, "L271", raised)
     ELSE
          /\ log' = log \o <<Ev("plot", 246, "plt", {"projection", "image_adj"})>>
          /\ nb' = nb
          /\ pc' = "L271"
          /\ UNCHANGED <<nx, ny, inner, thetas, rr, Radop, image, projection1, ydata, xadj, varsGrid, varsMse, raised>>

\* dottest(Fop, Fop.shape[0], Fop.shape[1])
L271_dottest ==
  /\ pc = "L271"
  /\ IF ~Readable({"Fop"}, {})
     THEN Abort(271, "NameError", <<>>, {}, "L344", raised)
     ELSE LET c == Ev("call", 271, "dottest", {}) IN
          \/ /\ log' = log \o <<c,
                     Ev("return", 271, "dottest", {})>>
             /\ nb' = nb
             /\ pc' = "L344"
             /\ UNCHANGED <<nx, ny, inner, thetas, rr, Radop, image, projection1, ydata, xadj, varsGrid, varsMse, raised>>
          \/ /\ raised = None
             /\ Abort(271, "error", <<c>>, {}, "L344", [line |-> 271, what |-> "dottest"])

\* nx, ny = image.shape; inner = 100
L344_shape_inner ==
  /\ pc = "L344"
  /\ IF ~Readable({"image"}, {})
     THEN Abort(344, "NameError", <<>>, {"nx", "ny", "inner", "x0", "y0", "XY", "theta", "XYrot"}, "L389", raised)
     ELSE
          /\ log' = log \o <<Ev("bind", 344, "nx", nb.v.image.shape[1]),
                  Ev("bind", 344, "ny", nb.v.image.shape[2]),
                  Ev("bind", 344, "inner", nb.lit.inner)>>
          /\ nb' = [nb EXCEPT !.names = @ \cup {"nx", "ny", "inner"}]
          /\ nx' = nb.v.image.shape[1]
          /\ ny' = nb.v.image.shape[2]
          /\ inner' = nb.lit.inner
          /\ pc' = "L348"
          /\ UNCHANGED <<thetas, rr, Radop, image, projection1, ydata, xadj, varsGrid, varsMse, raised>>

\* x0, y0, x, y, X, Y, XY
L348_grid ==
  /\ pc = "L348"
  /\ IF ~Readable({"nx", "ny", "inner"}, {})
     THEN Abort(348, "NameError", <<>>, {"x0", "y0", "XY", "theta", "XYrot"}, "L389", raised)
     ELSE
          /\ log' = log \o <<Ev("bind", 348, "x0", nx \div 2),
                  Ev("bind", 348, "y0", ny \div 2),
                  Ev("bind", 348, "XY", Arr(<<2, Max(nx - inner, 0) * Max(ny - inner, 0)>>, "grid"))>>
          /\ nb' = [nb EXCEPT !.v.x0 = nx \div 2,
                  !.v.y0 = ny \div 2,
                  !.v.XY = Arr(<<2, Max(nx - inner, 0) * Max(ny - inner, 0)>>, "grid"),
                  !.names = @ \cup {"x0", "y0", "XY"}]
          /\ pc' = "L356"
          /\ UNCHANGED <<nx, ny, inner, thetas, rr, Radop, image, projection1, ydata, xadj, varsGrid, varsMse, raised>>

\* theta = 45; R; XYrot = R @ XY
L356_rotate ==
  /\ pc = "L356"
  /\ IF ~Readable({"XY"}, {})
     THEN Abort(356, "NameError", <<>>, {"theta", "XYrot", "XY"}, "L389", raised)
     ELSE
          /\ log' = log \o <<Ev("bind", 356, "theta", Scalar("45 degrees")),
                  Ev("bind", 356, "XYrot", Arr(nb.v.XY.shape, "rotated"))>>
          /\ nb' = [nb EXCEPT !.v.theta = Scalar("45 degrees"),
                  !.v.XYrot = Arr(nb.v.XY.shape, "rotated"),
                  !.names = @ \cup {"theta", "XYrot"}]
          /\ pc' = "L363"
          /\ UNCHANGED <<nx, ny, inner, thetas, rr, Radop, image, projection1, ydata, xadj, varsGrid, varsMse, raised>>

\* XY += (x0, y0); XYrot += (x0, y0)
L363_recenter ==
  /\ pc = "L363"
  /\ IF ~Readable({"XY", "XYrot", "x0", "y0"}, {})
     THEN Abort(363, "NameError", <<>>, {"XY", "XYrot"}, "L389", raised)
     ELSE
          /\ log' = log \o <<Ev("bind", 363, "XY", Arr(nb.v.XY.shape, "recentred grid")),
                  Ev("bind", 363, "XYrot", Arr(nb.v.XYrot.shape, "recentred rotated"))>>
          /\ nb' = [nb EXCEPT !.v.XY = Arr(nb.v.XY.shape, "recentred grid"),
                  !.v.XYrot = Arr(nb.v.XYrot.shape, "recentred rotated"),
                  !.names = @ \cup {"XY", "XYrot"}]
          /\ pc' = "L369"
          /\ UNCHANGED <<nx, ny, inner, thetas, rr, Radop, image, projection1, ydata, xadj, varsGrid, varsMse, raised>>

\* plt.scatter(XY); plt.scatter(XYrot)
L369_plot ==
  /\ pc = "L369"
  /\ IF ~Readable({"XY", "XYrot"}, {})
     THEN Abort(369, "NameError", <<>>, {}, "L389", raised)
     ELSE
          /\ log' = log \o <<Ev("plot", 369, "plt", {"XY", "XYrot"})>>
          /\ nb' = nb
          /\ pc' = "L389"
          /\ UNCHANGED <<nx, ny, inner, thetas, rr, Radop, image, projection1, ydata, xadj, varsGrid, varsMse, raised>>

\* Rop = pylops.signalprocessing.Bilinear(XYrot, dims=(nx, ny))
L389_Rop ==
  /\ pc = "L389"
  /\ IF ~Readable({"XYrot", "nx", "ny"}, {})
     THEN Abort(389, "NameError", <<>>, {"Rop"}, "L405", raised)
     ELSE LET c == Ev("call", 389, "Bilinear", {}) IN
          \/ /\ log' = log \o <<c,
                     Ev("return", 389, "Bilinear", {}),
                     Ev("bind", 389, "Rop", LinOp("Bilinear", nb.v.XYrot.shape[2], nx * ny))>>
             /\ nb' = [nb EXCEPT !.v.Rop = LinOp("Bilinear", nb.v.XYrot.shape[2], nx * ny),
                     !.names = @ \cup {"Rop"}]
             /\ pc' = "L405"
             /\ UNCHANGED <<nx, ny, inner, thetas, rr, Radop, image, projection1, ydata, xadj, varsGrid, varsMse, raised>>
          \/ /\ raised = None
             /\ Abort(389, "error", <<c>>, {"Rop"}, "L405", [line |-> 389, what |-> "Bilinear"])

\* imagerot = Rop * image.ravel()
L405_Rop_forward ==
  /\ pc = "L405"
  /\ IF ~Readable({"Rop", "image"}, {})
     THEN Abort(405, "NameError", <<>>, {"imagerot"}, "L428", raised)
     ELSE LET c == Ev("call", 405, "Rop.matvec", {}) IN
          IF ~(Size(nb.v.image) = nb.v.Rop.shape[2])
          THEN Abort(405, "ValueError", <<c>>, {"imagerot"}, "L428", raised)
          ELSE
               \/ /\ log' = log \o <<c,
                          Ev("return", 405, "Rop.matvec", {}),
                          Ev("bind", 405, "imagerot", Arr(<<nb.v.Rop.shape[1]>>, "Rop"))>>
                  /\ nb' = [nb EXCEPT !.v.imagerot = Arr(<<nb.v.Rop.shape[1]>>, "Rop"),
                          !.names = @ \cup {"imagerot"}]
                  /\ pc' = "L406"
                  /\ UNCHANGED <<nx, ny, inner, thetas, rr, Radop, image, projection1, ydata, xadj, varsGrid, varsMse, raised>>
               \/ /\ raised = None
                  /\ Abort(405, "error", <<c>>, {"imagerot"}, "L428", [line |-> 405, what |-> "Rop.matvec"])

\* imagerot = imagerot.reshape(nx-inner, ny-inner)
L406_reshape ==
  /\ pc = "L406"
  /\ IF ~Readable({"imagerot", "nx", "ny", "inner"}, {})
     THEN Abort(406, "NameError", <<>>, {"imagerot"}, "L428", raised)
     ELSE
          IF ~(Size(nb.v.imagerot) = (nx - inner) * (ny - inner))
          THEN Abort(406, "ValueError", <<>>, {"imagerot"}, "L428", raised)
          ELSE
               /\ log' = log \o <<Ev("bind", 406, "imagerot", Arr(<<nx - inner, ny - inner>>, nb.v.imagerot.src))>>
               /\ nb' = [nb EXCEPT !.v.imagerot = Arr(<<nx - inner, ny - inner>>, nb.v.imagerot.src),
                       !.names = @ \cup {"imagerot"}]
               /\ pc' = "L408"
               /\ UNCHANGED <<nx, ny, inner, thetas, rr, Radop, image, projection1, ydata, xadj, varsGrid, varsMse, raised>>

\* plots of image and imagerot
L408_plot ==
  /\ pc = "L408"
  /\ IF ~Readable({"image", "imagerot"}, {})
     THEN Abort(408, "NameError", <<>>, {}, "L428", raised)
     ELSE
          /\ log' = log \o <<Ev("plot", 408, "plt", {"image", "imagerot"})>>
          /\ nb' = nb
          /\ pc' = "L428"
          /\ UNCHANGED <<nx, ny, inner, thetas, rr, Radop, image, projection1, ydata, xadj, varsGrid, varsMse, raised>>

\* def RadonRotate(dims, inner, thetas)
L428_def_RadonRotate ==
  /\ pc = "L428"
  /\ log' = log \o <<Ev("bind", 428, "RadonRotate", [kind |-> "function"])>>
  /\ nb' = [nb EXCEPT !.v.RadonRotate = [kind |-> "function"],
          !.names = @ \cup {"RadonRotate"}]
  /\ pc' = "L469"
  /\ UNCHANGED <<nx, ny, inner, thetas, rr, Radop, image, projection1, ydata, xadj, varsGrid, varsMse, raised>>

\* inner = 100
L469_inner ==
  /\ pc = "L469"
  /\ log' = log \o <<Ev("bind", 469, "inner", nb.lit.inner)>>
  /\ nb' = [nb EXCEPT !.names = @ \cup {"inner"}]
  /\ inner' = nb.lit.inner
  /\ pc' = "L470"
  /\ UNCHANGED <<nx, ny, thetas, rr, Radop, image, projection1, ydata, xadj, varsGrid, varsMse, raised>>

\* RadonRotate((nx, ny), inner, thetas): the call
L470_call_RadonRotate ==
  /\ pc = "L470"
  /\ IF ~Readable({"RadonRotate", "nx", "ny", "inner", "thetas"}, {})
     THEN Abort(470, "NameError", <<>>, {"Radop"}, "L487", raised)
     ELSE
          /\ log' = log \o <<Ev("enter", 470, "RadonRotate", {})>>
          /\ nb' = nb
          /\ pc' = "call"
          /\ UNCHANGED <<nx, ny, inner, thetas, rr, Radop, image, projection1, ydata, xadj, varsGrid, varsMse, raised>>

\* Radop = <value returned>; print(Radop)
L471_print_Radop ==
  /\ pc = "built"
  /\ IF ~Readable({"Radop"}, {})
     THEN Abort(471, "NameError", <<>>, {}, "L487", raised)
     ELSE
          /\ log' = log \o <<Ev("exit", 470, "RadonRotate", {}),
                  Ev("bind", 470, "Radop", [kind |-> Radop.kind, shape |-> Radop.shape]),
                  Ev("print", 471, "print", {"Radop"})>>
          /\ nb' = nb
          /\ pc' = "L487"
          /\ UNCHANGED <<nx, ny, inner, thetas, rr, Radop, image, projection1, ydata, xadj, varsGrid, varsMse, raised>>

\* projection1 = Radop * image.ravel()
L487_Radop_forward ==
  /\ pc = "L487"
  /\ IF ~Readable({"Radop", "image"}, {})
     THEN Abort(487, "NameError", <<>>, {"projection1"}, "L497", raised)
     ELSE LET c == Ev("call", 487, "Radop.matvec", {}) IN
          IF ~(Size(nb.v.image) = Radop.shape[2])
          THEN Abort(487, "ValueError", <<c>>, {"projection1"}, "L497", raised)
          ELSE
               \/ /\ log' = log \o <<c,
                          Ev("return", 487, "Radop.matvec", {}),
                          Ev("bind", 487, "projection1", Arr(<<Radop.shape[1]>>, "Radop"))>>
                  /\ nb' = [nb EXCEPT !.names = @ \cup {"projection1"}]
                  /\ projection1' = Arr(<<Radop.shape[1]>>, "Radop")
                  /\ pc' = "L488"
                  /\ UNCHANGED <<nx, ny, inner, thetas, rr, Radop, image, ydata, xadj, varsGrid, varsMse, raised>>
               \/ /\ raised = None
                  /\ Abort(487, "error", <<c>>, {"projection1"}, "L497", [line |-> 487, what |-> "Radop.matvec"])

\* projection1 = projection1.reshape(len(thetas), ny-inner)
L488_reshape ==
  /\ pc = "L488"
  /\ IF ~Readable({"projection1", "thetas", "ny", "inner"}, {})
     THEN Abort(488, "NameError", <<>>, {"projection1"}, "L497", raised)
     ELSE
          IF ~(Size(projection1) = Len(thetas) * (ny - inner))
          THEN Abort(488, "ValueError", <<>>, {"projection1"}, "L497", raised)
          ELSE
               /\ log' = log \o <<Ev("bind", 488, "projection1", Arr(<<Len(thetas), ny - inner>>, projection1.src))>>
               /\ nb' = [nb EXCEPT !.names = @ \cup {"projection1"}]
               /\ projection1' = Arr(<<Len(thetas), ny - inner>>, projection1.src)
               /\ pc' = "L497"
               /\ UNCHANGED <<nx, ny, inner, thetas, rr, Radop, image, ydata, xadj, varsGrid, varsMse, raised>>

\* plots of projection1.T and of the window of projection
L497_plot ==
  /\ pc = "L497"
  /\ IF ~Readable({"projection1", "projection", "nx", "inner"}, {})
     THEN Abort(497, "NameError", <<>>, {}, "L537", raised)
     ELSE
          /\ log' = log \o <<Ev("plot", 497, "plt", {"projection1", "projection"})>>
          /\ nb' = nb
          /\ pc' = "L504"
          /\ UNCHANGED <<nx, ny, inner, thetas, rr, Radop, image, projection1, ydata, xadj, varsGrid, varsMse, raised>>

\* plot of projection1.T - projection[window]
L504_plot_difference ==
  /\ pc = "L504"
  /\ IF ~Readable({"projection1", "projection", "nx", "inner"}, {})
     THEN Abort(504, "NameError", <<>>, {}, "L537", raised)
     ELSE
          IF ~(Broadcastable(Transposed(projection1.shape), <<SliceLen(nb.v.projection.shape[1], (nb.v.projection.shape[1] \div 2) - ((nx - inner) \div 2), (nb.v.projection.shape[1] \div 2) + ((nx - inner) \div 2)), nb.v.projection.shape[2]>>))
          THEN Abort(504, "ValueError", <<>>, {}, "L537", raised)
          ELSE
               /\ log' = log \o <<Ev("plot", 504, "plt", {"projection1", "projection"})>>
               /\ nb' = nb
               /\ pc' = "L537"
               /\ UNCHANGED <<nx, ny, inner, thetas, rr, Radop, image, projection1, ydata, xadj, varsGrid, varsMse, raised>>

\* Mutant of L537_Laplacian: the Laplacian is built for the rotated grid,
\* dims = (nx-inner, ny-inner).
L537_Laplacian_inner ==
  /\ pc = "L537"
  /\ Readable({"nx", "ny", "inner"}, {})
  /\ LET D == LinOp("Laplacian", (nx - inner) * (ny - inner), (nx - inner) * (ny - inner))
     IN  /\ log' = log \o <<Ev("call", 537, "Laplacian", {}), Ev("return", 537, "Laplacian", {}),
                           Ev("bind", 537, "D2op", D)>>
         /\ nb' = [nb EXCEPT !.v.D2op = D, !.names = @ \cup {"D2op"}]
  /\ pc' = "L540"
  /\ UNCHANGED <<nx, ny, inner, thetas, rr, Radop, image, projection1, ydata, xadj, varsGrid, varsMse, raised>>

\* D2op = pylops.Laplacian(dims=(nx, ny))
L537_Laplacian ==
  /\ pc = "L537"
  /\ IF ~Readable({"nx", "ny"}, {})
     THEN Abort(537, "NameError", <<>>, {"D2op", "image_l2", "mse_l2"}, "L572", raised)
     ELSE LET c == Ev("call", 537, "Laplacian", {}) IN
          \/ /\ log' = log \o <<c,
                     Ev("return", 537, "Laplacian", {}),
                     Ev("bind", 537, "D2op", LinOp("Laplacian", nx * ny, nx * ny))>>
             /\ nb' = [nb EXCEPT !.v.D2op = LinOp("Laplacian", nx * ny, nx * ny),
                     !.names = @ \cup {"D2op"}]
             /\ pc' = "L540"
             /\ UNCHANGED <<nx, ny, inner, thetas, rr, Radop, image, projection1, ydata, xadj, varsGrid, varsMse, raised>>
          \/ /\ raised = None
             /\ Abort(537, "error", <<c>>, {"D2op", "image_l2", "mse_l2"}, "L572", [line |-> 537, what |-> "Laplacian"])

\* Mutant of L540_RegularizedInversion: the error of the solver is caught
\* and the cell goes on with its next statement.
L540_RegularizedInversion_caught ==
  /\ pc = "L540"
  /\ Readable({"Radop", "D2op", "projection1"}, {})
  /\ raised = None
  /\ log' = log \o <<Ev("call", 540, "RegularizedInversion", {}), Ev("raise", 540, "error", {"image_l2", "mse_l2"})>>
  /\ raised' = [line |-> 540, what |-> "RegularizedInversion"]
  /\ pc' = "L544"
  /\ UNCHANGED <<nx, ny, inner, thetas, rr, Radop, image, projection1, ydata, xadj, varsGrid, varsMse, nb>>

\* image_l2 = RegularizedInversion(Radop, [D2op], projection1.ravel())
L540_RegularizedInversion ==
  /\ pc = "L540"
  /\ IF ~Readable({"Radop", "D2op", "projection1"}, {})
     THEN Abort(540, "NameError", <<>>, {"image_l2", "mse_l2"}, "L572", raised)
     ELSE LET c == Ev("call", 540, "RegularizedInversion", [op |-> Radop.shape, regs |-> [k \in 1..Len(<<nb.v.D2op>>) |-> <<nb.v.D2op>>[k].shape], data |-> Size(projection1), src |-> projection1.src]) IN
          IF ~(Size(projection1) = Radop.shape[1] /\ \A k \in 1..Len(<<nb.v.D2op>>) : <<nb.v.D2op>>[k].shape[2] = Radop.shape[2])
          THEN Abort(540, "ValueError", <<c>>, {"image_l2", "mse_l2"}, "L572", raised)
          ELSE
               \/ /\ log' = log \o <<c,
                          Ev("return", 540, "RegularizedInversion", [size |-> Radop.shape[2]]),
                          Ev("bind", 540, "image_l2", Arr(<<Radop.shape[2]>>, "RegularizedInversion"))>>
                  /\ nb' = [nb EXCEPT !.v.image_l2 = Arr(<<Radop.shape[2]>>, "RegularizedInversion"),
                          !.names = @ \cup {"image_l2"}]
                  /\ pc' = "L544"
                  /\ UNCHANGED <<nx, ny, inner, thetas, rr, Radop, image, projection1, ydata, xadj, varsGrid, varsMse, raised>>
               \/ /\ raised = None
                  /\ Abort(540, "error", <<c>>, {"image_l2", "mse_l2"}, "L572", [line |-> 540, what |-> "RegularizedInversion"])

\* image_l2 = np.real(image_l2.reshape(nx, ny))
L544_reshape ==
  /\ pc = "L544"
  /\ IF ~Readable({"image_l2", "nx", "ny"}, {})
     THEN Abort(544, "NameError", <<>>, {"image_l2", "mse_l2"}, "L572", raised)
     ELSE
          IF ~(Size(nb.v.image_l2) = nx * ny)
          THEN Abort(544, "ValueError", <<>>, {"image_l2", "mse_l2"}, "L572", raised)
          ELSE
               /\ log' = log \o <<Ev("bind", 544, "image_l2", Arr(<<nx, ny>>, nb.v.image_l2.src))>>
               /\ nb' = [nb EXCEPT !.v.image_l2 = Arr(<<nx, ny>>, nb.v.image_l2.src),
                       !.names = @ \cup {"image_l2"}]
               /\ pc' = "L545"
               /\ UNCHANGED <<nx, ny, inner, thetas, rr, Radop, image, projection1, ydata, xadj, varsGrid, varsMse, raised>>

\* Mutant of L545_mse_l2: the metric of image_l2 is not computed.
L545_mse_l2_skipped ==
  /\ pc = "L545"
  /\ pc' = "L547"
  /\ UNCHANGED <<nx, ny, inner, thetas, rr, Radop, image, projection1, ydata, xadj, varsGrid, varsMse, varsRun>>

\* mse_l2 = np.linalg.norm(image_l2[w] - image[w])
L545_mse_l2 ==
  /\ pc = "L545"
  /\ IF ~Readable({"image_l2", "image", "pad"}, {})
     THEN Abort(545, "NameError", <<>>, {"mse_l2"}, "L572", raised)
     ELSE
          IF ~(Broadcastable(WindowShape(nb.v.image_l2, nb.v.pad), WindowShape(nb.v.image, nb.v.pad)))
          THEN Abort(545, "ValueError", <<>>, {"mse_l2"}, "L572", raised)
          ELSE
               /\ log' = log \o <<Ev("bind", 545, "mse_l2", Scalar("image_l2"))>>
               /\ nb' = [nb EXCEPT !.v.mse_l2 = Scalar("image_l2"),
                       !.names = @ \cup {"mse_l2"}]
               /\ pc' = "L547"
               /\ UNCHANGED <<nx, ny, inner, thetas, rr, Radop, image, projection1, ydata, xadj, varsGrid, varsMse, raised>>

\* plots of image_l2 and its error
L547_plot ==
  /\ pc = "L547"
  /\ IF ~Readable({"image_l2", "image", "pad"}, {})
     THEN Abort(547, "NameError", <<>>, {}, "L572", raised)
     ELSE
          IF ~(Broadcastable(WindowShape(nb.v.image_l2, nb.v.pad), WindowShape(nb.v.image, nb.v.pad)))
          THEN Abort(547, "ValueError", <<>>, {}, "L572", raised)
          ELSE
               /\ log' = log \o <<Ev("plot", 547, "plt", {"image_l2", "image"})>>
               /\ nb' = nb
               /\ pc' = "L572"
               /\ UNCHANGED <<nx, ny, inner, thetas, rr, Radop, image, projection1, ydata, xadj, varsGrid, varsMse, raised>>

\* Dop = [FirstDerivative(ny*nx, dims=(nx, ny), dir=0), ..dir=1]; mu, lamda, niter, niterinner
L572_FirstDerivative ==
  /\ pc = "L572"
  /\ IF ~Readable({"nx", "ny"}, {})
     THEN Abort(572, "NameError", <<>>, {"Dop", "mu", "lamda", "niter", "niterinner", "image_tv", "mse_tv"}, "L611", raised)
     ELSE LET c == Ev("call", 572, "FirstDerivative", {}) IN
          \/ /\ log' = log \o <<c,
                     Ev("return", 572, "FirstDerivative", {}),
                     Ev("bind", 572, "Dop", <<LinOp("FirstDerivative", ny * nx, ny * nx), LinOp("FirstDerivative", ny * nx, ny * nx)>>),
                     Ev("bind", 572, "mu", Scalar("0.2")),
                     Ev("bind", 572, "lamda", <<Scalar("1."), Scalar("1.")>>),
                     Ev("bind", 572, "niter", Scalar("5")),
                     Ev("bind", 572, "niterinner", Scalar("1"))>>
             /\ nb' = [nb EXCEPT !.v.Dop = <<LinOp("FirstDerivative", ny * nx, ny * nx), LinOp("FirstDerivative", ny * nx, ny * nx)>>,
                     !.v.mu = Scalar("0.2"),
                     !.v.lamda = <<Scalar("1."), Scalar("1.")>>,
                     !.v.niter = Scalar("5"),
                     !.v.niterinner = Scalar("1"),
                     !.names = @ \cup {"Dop", "mu", "lamda", "niter", "niterinner"}]
             /\ pc' = "L582"
             /\ UNCHANGED <<nx, ny, inner, thetas, rr, Radop, image, projection1, ydata, xadj, varsGrid, varsMse, raised>>
          \/ /\ raised = None
             /\ Abort(572, "error", <<c>>, {"Dop", "mu", "lamda", "niter", "niterinner", "image_tv", "mse_tv"}, "L611", [line |-> 572, what |-> "FirstDerivative"])

\* image_tv, niter = SplitBregman(Radop, Dop, projection1.ravel(), niter, niterinner)
L582_SplitBregman ==
  /\ pc = "L582"
  /\ IF ~Readable({"Radop", "Dop", "projection1", "niter", "niterinner", "mu", "lamda"}, {})
     THEN Abort(582, "NameError", <<>>, {"image_tv", "niter", "mse_tv"}, "L611", raised)
     ELSE LET c == Ev("call", 582, "SplitBregman", [op |-> Radop.shape, regs |-> [k \in 1..Len(nb.v.Dop) |-> nb.v.Dop[k].shape], data |-> Size(projection1), src |-> projection1.src]) IN
          IF ~(Size(projection1) = Radop.shape[1] /\ \A k \in 1..Len(nb.v.Dop) : nb.v.Dop[k].shape[2] = Radop.shape[2])
          THEN Abort(582, "ValueError", <<c>>, {"image_tv", "niter", "mse_tv"}, "L611", raised)
          ELSE
               \/ /\ log' = log \o <<c,
                          Ev("return", 582, "SplitBregman", [size |-> Radop.shape[2]]),
                          Ev("bind", 582, "image_tv", Arr(<<Radop.shape[2]>>, "SplitBregman")),
                          Ev("bind", 582, "niter", Scalar("SplitBregman"))>>
                  /\ nb' = [nb EXCEPT !.v.image_tv = Arr(<<Radop.shape[2]>>, "SplitBregman"),
                          !.v.niter = Scalar("SplitBregman"),
                          !.names = @ \cup {"image_tv", "niter"}]
                  /\ pc' = "L585"
                  /\ UNCHANGED <<nx, ny, inner, thetas, rr, Radop, image, projection1, ydata, xadj, varsGrid, varsMse, raised>>
               \/ /\ raised = None
                  /\ Abort(582, "error", <<c>>, {"image_tv", "niter", "mse_tv"}, "L611", [line |-> 582, what |-> "SplitBregman"])

\* image_tv = np.real(image_tv.reshape(nx, ny))
L585_reshape ==
  /\ pc = "L585"
  /\ IF ~Readable({"image_tv", "nx", "ny"}, {})
     THEN Abort(585, "NameError", <<>>, {"image_tv", "mse_tv"}, "L611", raised)
     ELSE
          IF ~(Size(nb.v.image_tv) = nx * ny)
          THEN Abort(585, "ValueError", <<>>, {"image_tv", "mse_tv"}, "L611", raised)
          ELSE
               /\ log' = log \o <<Ev("bind", 585, "image_tv", Arr(<<nx, ny>>, nb.v.image_tv.src))>>
               /\ nb' = [nb EXCEPT !.v.image_tv = Arr(<<nx, ny>>, nb.v.image_tv.src),
                       !.names = @ \cup {"image_tv"}]
               /\ pc' = "L586"
               /\ UNCHANGED <<nx, ny, inner, thetas, rr, Radop, image, projection1, ydata, xadj, varsGrid, varsMse, raised>>

\* mse_tv = np.linalg.norm(image_tv[w] - image[w])
L586_mse_tv ==
  /\ pc = "L586"
  /\ IF ~Readable({"image_tv", "image", "pad"}, {})
     THEN Abort(586, "NameError", <<>>, {"mse_tv"}, "L611", raised)
     ELSE
          IF ~(Broadcastable(WindowShape(nb.v.image_tv, nb.v.pad), WindowShape(nb.v.image, nb.v.pad)))
          THEN Abort(586, "ValueError", <<>>, {"mse_tv"}, "L611", raised)
          ELSE
               /\ log' = log \o <<Ev("bind", 586, "mse_tv", Scalar("image_tv"))>>
               /\ nb' = [nb EXCEPT !.v.mse_tv = Scalar("image_tv"),
                       !.names = @ \cup {"mse_tv"}]
               /\ pc' = "L588"
               /\ UNCHANGED <<nx, ny, inner, thetas, rr, Radop, image, projection1, ydata, xadj, varsGrid, varsMse, raised>>

\* plots of image_tv and its error
L588_plot ==
  /\ pc = "L588"
  /\ IF ~Readable({"image_tv", "image", "pad"}, {})
     THEN Abort(588, "NameError", <<>>, {}, "L611", raised)
     ELSE
          IF ~(Broadcastable(WindowShape(nb.v.image_tv, nb.v.pad), WindowShape(nb.v.image, nb.v.pad)))
          THEN Abort(588, "ValueError", <<>>, {}, "L611", raised)
          ELSE
               /\ log' = log \o <<Ev("plot", 588, "plt", {"image_tv", "image"})>>
               /\ nb' = nb
               /\ pc' = "L611"
               /\ UNCHANGED <<nx, ny, inner, thetas, rr, Radop, image, projection1, ydata, xadj, varsGrid, varsMse, raised>>

\* plots of image, image_fbp, image_l2, image_tv
L611_plot ==
  /\ pc = "L611"
  /\ IF ~Readable({"image", "pad", "image_fbp", "image_l2", "image_tv"}, {})
     THEN Abort(611, "NameError", <<>>, {}, "L656", raised)
     ELSE
          /\ log' = log \o <<Ev("plot", 611, "plt", {"image", "image_fbp", "image_l2", "image_tv"})>>
          /\ nb' = nb
          /\ pc' = "L656"
          /\ UNCHANGED <<nx, ny, inner, thetas, rr, Radop, image, projection1, ydata, xadj, varsGrid, varsMse, raised>>

\* print(mse_fbp)
L656_print_mse_fbp ==
  /\ pc = "L656"
  /\ IF ~Readable({"mse_fbp"}, {})
     THEN Abort(656, "NameError", <<>>, {}, "L694", raised)
     ELSE
          /\ log' = log \o <<Ev("print", 656, "print", {"mse_fbp"})>>
          /\ nb' = nb
          /\ pc' = "L657"
          /\ UNCHANGED <<nx, ny, inner, thetas, rr, Radop, image, projection1, ydata, xadj, varsGrid, varsMse, raised>>

\* print(mse_l2)
L657_print_mse_l2 ==
  /\ pc = "L657"
  /\ IF ~Readable({"mse_l2"}, {})
     THEN Abort(657, "NameError", <<>>, {}, "L694", raised)
     ELSE
          /\ log' = log \o <<Ev("print", 657, "print", {"mse_l2"})>>
          /\ nb' = nb
          /\ pc' = "L658"
          /\ UNCHANGED <<nx, ny, inner, thetas, rr, Radop, image, projection1, ydata, xadj, varsGrid, varsMse, raised>>

\* print(mse_tv)
L658_print_mse_tv ==
  /\ pc = "L658"
  /\ IF ~Readable({"mse_tv"}, {})
     THEN Abort(658, "NameError", <<>>, {}, "L694", raised)
     ELSE
          /\ log' = log \o <<Ev("print", 658, "print", {"mse_tv"})>>
          /\ nb' = nb
          /\ pc' = "L694"
          /\ UNCHANGED <<nx, ny, inner, thetas, rr, Radop, image, projection1, ydata, xadj, varsGrid, varsMse, raised>>

\* def radon_morereg()
L694_def_radon_morereg ==
  /\ pc = "L694"
  /\ log' = log \o <<Ev("bind", 694, "radon_morereg", [kind |-> "function"])>>
  /\ nb' = [nb EXCEPT !.v.radon_morereg = [kind |-> "function"],
          !.names = @ \cup {"radon_morereg"}]
  /\ pc' = "L743"
  /\ UNCHANGED <<nx, ny, inner, thetas, rr, Radop, image, projection1, ydata, xadj, varsGrid, varsMse, raised>>

\* radon_morereg()
L743_call_radon_morereg ==
  /\ pc = "L743"
  /\ IF ~Readable({"radon_morereg"}, {})
     THEN Abort(743, "NameError", <<>>, {}, "L759", raised)
     ELSE
          /\ log' = log \o <<Ev("enter", 743, "radon_morereg", {})>>
          /\ nb' = [nb EXCEPT !.fn = "radon_morereg"]
          /\ pc' = "L698"
          /\ UNCHANGED <<nx, ny, inner, thetas, rr, Radop, image, projection1, ydata, xadj, varsGrid, varsMse, raised>>

\* Wop = pylops.signalprocessing.DWT2D(image.shape, wavelet='haar', level=5)
L698_DWT2D ==
  /\ pc = "L698"
  /\ IF ~Readable({"image"}, {})
     THEN Abort(698, "NameError", <<>>, {}, "L759", raised)
     ELSE LET c == Ev("call", 698, "DWT2D", {}) IN
          \/ /\ log' = log \o <<c,
                     Ev("return", 698, "DWT2D", {}),
                     Ev("bind", 698, "radon_morereg.Wop", LinOp("DWT2D", DWT2DSide(nb.v.image.shape[1], WaveletLevel) * DWT2DSide(nb.v.image.shape[2], WaveletLevel), Size(nb.v.image)))>>
             /\ nb' = [nb EXCEPT !.local.Wop = LinOp("DWT2D", DWT2DSide(nb.v.image.shape[1], WaveletLevel) * DWT2DSide(nb.v.image.shape[2], WaveletLevel), Size(nb.v.image)),
                     !.lnames = @ \cup {"Wop"}]
             /\ pc' = "L699"
             /\ UNCHANGED <<nx, ny, inner, thetas, rr, Radop, image, projection1, ydata, xadj, varsGrid, varsMse, raised>>
          \/ /\ raised = None
             /\ Abort(698, "error", <<c>>, {}, "L759", [line |-> 698, what |-> "DWT2D"])

\* Mutant of L699_DWop: Wop is appended to the notebook's list Dop itself
\* (Dop.append(Wop); DWop = Dop).
L699_DWop_appended ==
  /\ pc = "L699"
  /\ Readable({"Dop"}, {"Wop"})
  /\ LET D == nb.v.Dop \o <<nb.local.Wop>>
     IN  /\ log' = log \o <<Ev("bind", 699, "radon_morereg.DWop", D)>>
         /\ nb' = [nb EXCEPT !.v.Dop = D, !.local.DWop = D,
                               !.local.mu = Scalar("0.2"),
                               !.local.lamda = <<Scalar("1."), Scalar("1."), Scalar(".5")>>,
                               !.local.niter = Scalar("5"),
                               !.local.niterinner = Scalar("1"),
                               !.lnames = @ \cup {"DWop", "mu", "lamda", "niter", "niterinner"}]
  /\ pc' = "L707"
  /\ UNCHANGED <<nx, ny, inner, thetas, rr, Radop, image, projection1, ydata, xadj, varsGrid, varsMse, raised>>

\* DWop = Dop + [Wop, ]; mu, lamda, niter, niterinner (locals)
L699_DWop ==
  /\ pc = "L699"
  /\ IF ~Readable({"Dop"}, {"Wop"})
     THEN Abort(699, "NameError", <<>>, {}, "L759", raised)
     ELSE
          /\ log' = log \o <<Ev("bind", 699, "radon_morereg.DWop", nb.v.Dop \o <<nb.local.Wop>>),
                  Ev("bind", 699, "radon_morereg.mu", Scalar("0.2")),
                  Ev("bind", 699, "radon_morereg.lamda", <<Scalar("1."), Scalar("1."), Scalar(".5")>>),
                  Ev("bind", 699, "radon_morereg.niter", Scalar("5")),
                  Ev("bind", 699, "radon_morereg.niterinner", Scalar("1"))>>
          /\ nb' = [nb EXCEPT !.local.DWop = nb.v.Dop \o <<nb.local.Wop>>,
                  !.local.mu = Scalar("0.2"),
                  !.local.lamda = <<Scalar("1."), Scalar("1."), Scalar(".5")>>,
                  !.local.niter = Scalar("5"),
                  !.local.niterinner = Scalar("1"),
                  !.lnames = @ \cup {"DWop", "mu", "lamda", "niter", "niterinner"}]
          /\ pc' = "L707"
          /\ UNCHANGED <<nx, ny, inner, thetas, rr, Radop, image, projection1, ydata, xadj, varsGrid, varsMse, raised>>

\* image_tvw, niter = SplitBregman(Radop, DWop, projection1.ravel(), niter, niterinner)
L707_SplitBregman ==
  /\ pc = "L707"
  /\ IF ~Readable({"Radop", "projection1"}, {"DWop", "niter", "niterinner", "mu", "lamda"})
     THEN Abort(707, "NameError", <<>>, {}, "L759", raised)
     ELSE LET c == Ev("call", 707, "SplitBregman", [op |-> Radop.shape, regs |-> [k \in 1..Len(nb.local.DWop) |-> nb.local.DWop[k].shape], data |-> Size(projection1), src |-> projection1.src]) IN
          IF ~(Size(projection1) = Radop.shape[1] /\ \A k \in 1..Len(nb.local.DWop) : nb.local.DWop[k].shape[2] = Radop.shape[2])
          THEN Abort(707, "ValueError", <<c>>, {}, "L759", raised)
          ELSE
               \/ /\ log' = log \o <<c,
                          Ev("return", 707, "SplitBregman", [size |-> Radop.shape[2]]),
                          Ev("bind", 707, "radon_morereg.image_tvw", Arr(<<Radop.shape[2]>>, "SplitBregman")),
                          Ev("bind", 707, "radon_morereg.niter", Scalar("SplitBregman"))>>
                  /\ nb' = [nb EXCEPT !.local.image_tvw = Arr(<<Radop.shape[2]>>, "SplitBregman"),
                          !.local.niter = Scalar("SplitBregman"),
                          !.lnames = @ \cup {"image_tvw", "niter"}]
                  /\ pc' = "L719"
                  /\ UNCHANGED <<nx, ny, inner, thetas, rr, Radop, image, projection1, ydata, xadj, varsGrid, varsMse, raised>>
               \/ /\ raised = None
                  /\ Abort(707, "error", <<c>>, {}, "L759", [line |-> 707, what |-> "SplitBregman"])

\* image_tvw = np.real(image_tvw.reshape(nx, ny))
L719_reshape ==
  /\ pc = "L719"
  /\ IF ~Readable({"nx", "ny"}, {"image_tvw"})
     THEN Abort(719, "NameError", <<>>, {}, "L759", raised)
     ELSE
          IF ~(Size(nb.local.image_tvw) = nx * ny)
          THEN Abort(719, "ValueError", <<>>, {}, "L759", raised)
          ELSE
               /\ log' = log \o <<Ev("bind", 719, "radon_morereg.image_tvw", Arr(<<nx, ny>>, nb.local.image_tvw.src))>>
               /\ nb' = [nb EXCEPT !.local.image_tvw = Arr(<<nx, ny>>, nb.local.image_tvw.src),
                       !.lnames = @ \cup {"image_tvw"}]
               /\ pc' = "L720"
               /\ UNCHANGED <<nx, ny, inner, thetas, rr, Radop, image, projection1, ydata, xadj, varsGrid, varsMse, raised>>

\* mse_tvw = np.linalg.norm(image_tvw[w] - image[w])
L720_mse_tvw ==
  /\ pc = "L720"
  /\ IF ~Readable({"image", "pad"}, {"image_tvw"})
     THEN Abort(720, "NameError", <<>>, {}, "L759", raised)
     ELSE
          IF ~(Broadcastable(WindowShape(nb.local.image_tvw, nb.v.pad), WindowShape(nb.v.image, nb.v.pad)))
          THEN Abort(720, "ValueError", <<>>, {}, "L759", raised)
          ELSE
               /\ log' = log \o <<Ev("bind", 720, "radon_morereg.mse_tvw", Scalar("image_tvw"))>>
               /\ nb' = [nb EXCEPT !.local.mse_tvw = Scalar("image_tvw"),
                       !.lnames = @ \cup {"mse_tvw"}]
               /\ pc' = "L723"
               /\ UNCHANGED <<nx, ny, inner, thetas, rr, Radop, image, projection1, ydata, xadj, varsGrid, varsMse, raised>>

\* print(mse_tvw)
L723_print_mse_tvw ==
  /\ pc = "L723"
  /\ IF ~Readable({}, {"mse_tvw"})
     THEN Abort(723, "NameError", <<>>, {}, "L759", raised)
     ELSE
          /\ log' = log \o <<Ev("print", 723, "print", {"radon_morereg.mse_tvw"})>>
          /\ nb' = nb
          /\ pc' = "L725"
          /\ UNCHANGED <<nx, ny, inner, thetas, rr, Radop, image, projection1, ydata, xadj, varsGrid, varsMse, raised>>

\* plots of image_tvw and its error; return
L725_plot ==
  /\ pc = "L725"
  /\ IF ~Readable({"image", "pad"}, {"image_tvw"})
     THEN Abort(725, "NameError", <<>>, {}, "L759", raised)
     ELSE
          IF ~(Broadcastable(WindowShape(nb.local.image_tvw, nb.v.pad), WindowShape(nb.v.image, nb.v.pad)))
          THEN Abort(725, "ValueError", <<>>, {}, "L759", raised)
          ELSE
               /\ log' = log \o <<Ev("plot", 725, "plt", {"radon_morereg.image_tvw", "image"}),
                       Ev("exit", 725, "radon_morereg", {})>>
               /\ nb' = [nb EXCEPT !.fn = "",
                       !.lnames = {},
                       !.local = NoLocal]
               /\ pc' = "L759"
               /\ UNCHANGED <<nx, ny, inner, thetas, rr, Radop, image, projection1, ydata, xadj, varsGrid, varsMse, raised>>

\* def radon_noise()
L759_def_radon_noise ==
  /\ pc = "L759"
  /\ log' = log \o <<Ev("bind", 759, "radon_noise", [kind |-> "function"])>>
  /\ nb' = [nb EXCEPT !.v.radon_noise = [kind |-> "function"],
          !.names = @ \cup {"radon_noise"}]
  /\ pc' = "L776"
  /\ UNCHANGED <<nx, ny, inner, thetas, rr, Radop, image, projection1, ydata, xadj, varsGrid, varsMse, raised>>

\* radon_noise()
L776_call_radon_noise ==
  /\ pc = "L776"
  /\ IF ~Readable({"radon_noise"}, {})
     THEN Abort(776, "NameError", <<>>, {}, "L792", raised)
     ELSE
          /\ log' = log \o <<Ev("enter", 776, "radon_noise", {})>>
          /\ nb' = [nb EXCEPT !.fn = "radon_noise"]
          /\ pc' = "L762"
          /\ UNCHANGED <<nx, ny, inner, thetas, rr, Radop, image, projection1, ydata, xadj, varsGrid, varsMse, raised>>

\* sigman = 5e-1; n = np.random.normal(0., sigman, projection.shape)
L762_noise ==
  /\ pc = "L762"
  /\ IF ~Readable({"projection"}, {})
     THEN Abort(762, "NameError", <<>>, {}, "L792", raised)
     ELSE
          /\ log' = log \o <<Ev("bind", 762, "radon_noise.sigman", Scalar("5e-1")),
                  Ev("bind", 762, "radon_noise.n", Arr(nb.v.projection.shape, "noise"))>>
          /\ nb' = [nb EXCEPT !.local.sigman = Scalar("5e-1"),
                  !.local.n = Arr(nb.v.projection.shape, "noise"),
                  !.lnames = @ \cup {"sigman", "n"}]
          /\ pc' = "L764"
          /\ UNCHANGED <<nx, ny, inner, thetas, rr, Radop, image, projection1, ydata, xadj, varsGrid, varsMse, raised>>

\* projection_n = projection + n
L764_projection_n ==
  /\ pc = "L764"
  /\ IF ~Readable({"projection"}, {"n"})
     THEN Abort(764, "NameError", <<>>, {}, "L792", raised)
     ELSE
          IF ~(Broadcastable(nb.v.projection.shape, nb.local.n.shape))
          THEN Abort(764, "ValueError", <<>>, {}, "L792", raised)
          ELSE
               /\ log' = log \o <<Ev("bind", 764, "radon_noise.projection_n", Arr(nb.v.projection.shape, "radon + noise"))>>
               /\ nb' = [nb EXCEPT !.local.projection_n = Arr(nb.v.projection.shape, "radon + noise"),
                       !.lnames = @ \cup {"projection_n"}]
               /\ pc' = "L765"
               /\ UNCHANGED <<nx, ny, inner, thetas, rr, Radop, image, projection1, ydata, xadj, varsGrid, varsMse, raised>>

\* projection1_n = projection1 + n[window].T; return
L765_projection1_n ==
  /\ pc = "L765"
  /\ IF ~Readable({"projection1", "projection", "nx", "inner"}, {"n"})
     THEN Abort(765, "NameError", <<>>, {}, "L792", raised)
     ELSE
          IF ~(Broadcastable(projection1.shape, Transposed(<<SliceLen(nb.local.n.shape[1], (nb.v.projection.shape[1] \div 2) - ((nx - inner) \div 2), (nb.v.projection.shape[1] \div 2) + ((nx - inner) \div 2)), nb.local.n.shape[2]>>)))
          THEN Abort(765, "ValueError", <<>>, {}, "L792", raised)
          ELSE
               /\ log' = log \o <<Ev("bind", 765, "radon_noise.projection1_n", Arr(projection1.shape, "Radop + noise")),
                       Ev("exit", 765, "radon_noise", {})>>
               /\ nb' = [nb EXCEPT !.fn = "",
                       !.lnames = {},
                       !.local = NoLocal]
               /\ pc' = "L792"
               /\ UNCHANGED <<nx, ny, inner, thetas, rr, Radop, image, projection1, ydata, xadj, varsGrid, varsMse, raised>>

\* def radon_kk()
L792_def_radon_kk ==
  /\ pc = "L792"
  /\ log' = log \o <<Ev("bind", 792, "radon_kk", [kind |-> "function"])>>
  /\ nb' = [nb EXCEPT !.v.radon_kk = [kind |-> "function"],
          !.names = @ \cup {"radon_kk"}]
  /\ pc' = "L906"
  /\ UNCHANGED <<nx, ny, inner, thetas, rr, Radop, image, projection1, ydata, xadj, varsGrid, varsMse, raised>>

\* radon_kk()
L906_call_radon_kk ==
  /\ pc = "L906"
  /\ IF ~Readable({"radon_kk"}, {})
     THEN Abort(906, "NameError", <<>>, {}, "L932", raised)
     ELSE
          /\ log' = log \o <<Ev("enter", 906, "radon_kk", {})>>
          /\ nb' = [nb EXCEPT !.fn = "radon_kk"]
          /\ pc' = "L796"
          /\ UNCHANGED <<nx, ny, inner, thetas, rr, Radop, image, projection1, ydata, xadj, varsGrid, varsMse, raised>>

\* Fop = pylops.signalprocessing.FFT2D(dims=(nx, ny))
L796_FFT2D ==
  /\ pc = "L796"
  /\ IF ~Readable({"nx", "ny"}, {})
     THEN Abort(796, "NameError", <<>>, {}, "L932", raised)
     ELSE LET c == Ev("call", 796, "FFT2D", {}) IN
          \/ /\ log' = log \o <<c,
                     Ev("return", 796, "FFT2D", {}),
                     Ev("bind", 796, "radon_kk.Fop", LinOp("FFT2D", nx * ny, nx * ny))>>
             /\ nb' = [nb EXCEPT !.local.Fop = LinOp("FFT2D", nx * ny, nx * ny),
                     !.lnames = @ \cup {"Fop"}]
             /\ pc' = "L799"
             /\ UNCHANGED <<nx, ny, inner, thetas, rr, Radop, image, projection1, ydata, xadj, varsGrid, varsMse, raised>>
          \/ /\ raised = None
             /\ Abort(796, "error", <<c>>, {}, "L932", [line |-> 796, what |-> "FFT2D"])

\* thetas = np.arange(-43, 47, 5); kx; ikx
L799_wavenumbers ==
  /\ pc = "L799"
  /\ IF ~Readable({"nx"}, {})
     THEN Abort(799, "NameError", <<>>, {}, "L932", raised)
     ELSE
          /\ log' = log \o <<Ev("bind", 799, "radon_kk.thetas", Arr(<<18>>, "arange(-43, 47, 5)")),
                  Ev("bind", 799, "radon_kk.kx", Arr(<<nx>>, "kx"))>>
          /\ nb' = [nb EXCEPT !.local.thetas = Arr(<<18>>, "arange(-43, 47, 5)"),
                  !.local.kx = Arr(<<nx>>, "kx"),
                  !.lnames = @ \cup {"thetas", "kx"}]
          /\ pc' = "L803"
          /\ UNCHANGED <<nx, ny, inner, thetas, rr, Radop, image, projection1, ydata, xadj, varsGrid, varsMse, raised>>

\* mask = np.zeros((nx, ny)); for theta in thetas: ...; logical_or; ifftshift
L803_mask ==
  /\ pc = "L803"
  /\ IF ~Readable({"nx", "ny"}, {"thetas", "kx"})
     THEN Abort(803, "NameError", <<>>, {}, "L932", raised)
     ELSE
          IF ~(Broadcastable(<<nx, ny>>, <<ny, nx>>))
          THEN Abort(803, "ValueError", <<>>, {}, "L932", raised)
          ELSE
               /\ log' = log \o <<Ev("bind", 803, "radon_kk.mask", Arr(<<nx, ny>>, "mask"))>>
               /\ nb' = [nb EXCEPT !.local.mask = Arr(<<nx, ny>>, "mask"),
                       !.lnames = @ \cup {"mask"}]
               /\ pc' = "L812"
               /\ UNCHANGED <<nx, ny, inner, thetas, rr, Radop, image, projection1, ydata, xadj, varsGrid, varsMse, raised>>

\* Rop = pylops.Restriction(nx * ny, np.where(mask.ravel() == 1)[0])
L812_Restriction ==
  /\ pc = "L812"
  /\ IF ~Readable({"nx", "ny"}, {"mask"})
     THEN Abort(812, "NameError", <<>>, {}, "L932", raised)
     ELSE LET c == Ev("call", 812, "Restriction", {}) IN
          \/ \E r \in MaskCounts(nx, ny) :
               /\ log' = log \o <<c,
                       Ev("return", 812, "Restriction", {}),
                       Ev("bind", 812, "radon_kk.Rop", LinOp("Restriction", r, nx * ny))>>
               /\ nb' = [nb EXCEPT !.local.Rop = LinOp("Restriction", r, nx * ny),
                       !.lnames = @ \cup {"Rop"}]
               /\ pc' = "L816"
               /\ UNCHANGED <<nx, ny, inner, thetas, rr, Radop, image, projection1, ydata, xadj, varsGrid, varsMse, raised>>
          \/ /\ raised = None
             /\ Abort(812, "error", <<c>>, {}, "L932", [line |-> 812, what |-> "Restriction"])

\* kk = Fop * image.ravel()
L816_kk ==
  /\ pc = "L816"
  /\ IF ~Readable({"image"}, {"Fop"})
     THEN Abort(816, "NameError", <<>>, {}, "L932", raised)
     ELSE LET c == Ev("call", 816, "Fop.matvec", {}) IN
          IF ~(Size(nb.v.image) = nb.local.Fop.shape[2])
          THEN Abort(816, "ValueError", <<c>>, {}, "L932", raised)
          ELSE
               \/ /\ log' = log \o <<c,
                          Ev("return", 816, "Fop.matvec", {}),
                          Ev("bind", 816, "radon_kk.kk", Arr(<<nb.local.Fop.shape[1]>>, "FFT2D"))>>
                  /\ nb' = [nb EXCEPT !.local.kk = Arr(<<nb.local.Fop.shape[1]>>, "FFT2D"),
                          !.lnames = @ \cup {"kk"}]
                  /\ pc' = "L817"
                  /\ UNCHANGED <<nx, ny, inner, thetas, rr, Radop, image, projection1, ydata, xadj, varsGrid, varsMse, raised>>
               \/ /\ raised = None
                  /\ Abort(816, "error", <<c>>, {}, "L932", [line |-> 816, what |-> "Fop.matvec"])

\* kk = kk.reshape(image.shape)
L817_reshape ==
  /\ pc = "L817"
  /\ IF ~Readable({"image"}, {"kk"})
     THEN Abort(817, "NameError", <<>>, {}, "L932", raised)
     ELSE
          IF ~(Size(nb.local.kk) = Size(nb.v.image))
          THEN Abort(817, "ValueError", <<>>, {}, "L932", raised)
          ELSE
               /\ log' = log \o <<Ev("bind", 817, "radon_kk.kk", Arr(nb.v.image.shape, nb.local.kk.src))>>
               /\ nb' = [nb EXCEPT !.local.kk = Arr(nb.v.image.shape, nb.local.kk.src),
                       !.lnames = @ \cup {"kk"}]
               /\ pc' = "L820"
               /\ UNCHANGED <<nx, ny, inner, thetas, rr, Radop, image, projection1, ydata, xadj, varsGrid, varsMse, raised>>

\* kkrestr = Rop.mask(kk.ravel())
L820_mask_kk ==
  /\ pc = "L820"
  /\ IF ~Readable({}, {"Rop", "kk"})
     THEN Abort(820, "NameError", <<>>, {}, "L932", raised)
     ELSE LET c == Ev("call", 820, "Restriction.mask", {}) IN
          IF ~(Size(nb.local.kk) = nb.local.Rop.shape[2])
          THEN Abort(820, "ValueError", <<c>>, {}, "L932", raised)
          ELSE
               \/ /\ log' = log \o <<c,
                          Ev("return", 820, "Restriction.mask", {}),
                          Ev("bind", 820, "radon_kk.kkrestr", Arr(<<nb.local.Rop.shape[2]>>, "masked"))>>
                  /\ nb' = [nb EXCEPT !.local.kkrestr = Arr(<<nb.local.Rop.shape[2]>>, "masked"),
                          !.lnames = @ \cup {"kkrestr"}]
                  /\ pc' = "L821"
                  /\ UNCHANGED <<nx, ny, inner, thetas, rr, Radop, image, projection1, ydata, xadj, varsGrid, varsMse, raised>>
               \/ /\ raised = None
                  /\ Abort(820, "error", <<c>>, {}, "L932", [line |-> 820, what |-> "Restriction.mask"])

\* kkrestr = kkrestr.reshape(ny, nx); fftshift of data and mask
L821_reshape ==
  /\ pc = "L821"
  /\ IF ~Readable({"nx", "ny"}, {"kkrestr"})
     THEN Abort(821, "NameError", <<>>, {}, "L932", raised)
     ELSE
          IF ~(Size(nb.local.kkrestr) = ny * nx)
          THEN Abort(821, "ValueError", <<>>, {}, "L932", raised)
          ELSE
               /\ log' = log \o <<Ev("bind", 821, "radon_kk.kkrestr", Arr(<<ny, nx>>, nb.local.kkrestr.src))>>
               /\ nb' = [nb EXCEPT !.local.kkrestr = Arr(<<ny, nx>>, nb.local.kkrestr.src),
                       !.lnames = @ \cup {"kkrestr"}]
               /\ pc' = "L826"
               /\ UNCHANGED <<nx, ny, inner, thetas, rr, Radop, image, projection1, ydata, xadj, varsGrid, varsMse, raised>>

\* KOp = Rop * Fop
L826_KOp ==
  /\ pc = "L826"
  /\ IF ~Readable({}, {"Rop", "Fop"})
     THEN Abort(826, "NameError", <<>>, {}, "L932", raised)
     ELSE LET c == Ev("call", 826, "Product", {}) IN
          IF ~(nb.local.Rop.shape[2] = nb.local.Fop.shape[1])
          THEN Abort(826, "ValueError", <<c>>, {}, "L932", raised)
          ELSE
               \/ /\ log' = log \o <<c,
                          Ev("return", 826, "Product", {}),
                          Ev("bind", 826, "radon_kk.KOp", LinOp("Product", nb.local.Rop.shape[1], nb.local.Fop.shape[2]))>>
                  /\ nb' = [nb EXCEPT !.local.KOp = LinOp("Product", nb.local.Rop.shape[1], nb.local.Fop.shape[2]),
                          !.lnames = @ \cup {"KOp"}]
                  /\ pc' = "L827"
                  /\ UNCHANGED <<nx, ny, inner, thetas, rr, Radop, image, projection1, ydata, xadj, varsGrid, varsMse, raised>>
               \/ /\ raised = None
                  /\ Abort(826, "error", <<c>>, {}, "L932", [line |-> 826, what |-> "Product"])

\* y = KOp * image.ravel()
L827_data ==
  /\ pc = "L827"
  /\ IF ~Readable({"image"}, {"KOp"})
     THEN Abort(827, "NameError", <<>>, {}, "L932", raised)
     ELSE LET c == Ev("call", 827, "KOp.matvec", {}) IN
          IF ~(Size(nb.v.image) = nb.local.KOp.shape[2])
          THEN Abort(827, "ValueError", <<c>>, {}, "L932", raised)
          ELSE
               \/ /\ log' = log \o <<c,
                          Ev("return", 827, "KOp.matvec", {}),
                          Ev("bind", 827, "radon_kk.y", Arr(<<nb.local.KOp.shape[1]>>, "KOp"))>>
                  /\ nb' = [nb EXCEPT !.local.y = Arr(<<nb.local.KOp.shape[1]>>, "KOp"),
                          !.lnames = @ \cup {"y"}]
                  /\ pc' = "L829"
                  /\ UNCHANGED <<nx, ny, inner, thetas, rr, Radop, image, projection1, ydata, xadj, varsGrid, varsMse, raised>>
               \/ /\ raised = None
                  /\ Abort(827, "error", <<c>>, {}, "L932", [line |-> 827, what |-> "KOp.matvec"])

\* plots of image, kk, kkrestr
L829_plot ==
  /\ pc = "L829"
  /\ IF ~Readable({"image"}, {"kk", "kkrestr"})
     THEN Abort(829, "NameError", <<>>, {}, "L932", raised)
     ELSE
          /\ log' = log \o <<Ev("plot", 829, "plt", {"image", "radon_kk.kk", "radon_kk.kkrestr"})>>
          /\ nb' = nb
          /\ pc' = "L844"
          /\ UNCHANGED <<nx, ny, inner, thetas, rr, Radop, image, projection1, ydata, xadj, varsGrid, varsMse, raised>>

\* D2op = pylops.Laplacian(dims=(nx, ny))
L844_Laplacian ==
  /\ pc = "L844"
  /\ IF ~Readable({"nx", "ny"}, {})
     THEN Abort(844, "NameError", <<>>, {}, "L932", raised)
     ELSE LET c == Ev("call", 844, "Laplacian", {}) IN
          \/ /\ log' = log \o <<c,
                     Ev("return", 844, "Laplacian", {}),
                     Ev("bind", 844, "radon_kk.D2op", LinOp("Laplacian", nx * ny, nx * ny))>>
             /\ nb' = [nb EXCEPT !.local.D2op = LinOp("Laplacian", nx * ny, nx * ny),
                     !.lnames = @ \cup {"D2op"}]
             /\ pc' = "L846"
             /\ UNCHANGED <<nx, ny, inner, thetas, rr, Radop, image, projection1, ydata, xadj, varsGrid, varsMse, raised>>
          \/ /\ raised = None
             /\ Abort(844, "error", <<c>>, {}, "L932", [line |-> 844, what |-> "Laplacian"])

\* image_l2 = RegularizedInversion(KOp, [D2op], y)
L846_RegularizedInversion ==
  /\ pc = "L846"
  /\ IF ~Readable({}, {"KOp", "D2op", "y"})
     THEN Abort(846, "NameError", <<>>, {}, "L932", raised)
     ELSE LET c == Ev("call", 846, "RegularizedInversion", [op |-> nb.local.KOp.shape, regs |-> [k \in 1..Len(<<nb.local.D2op>>) |-> <<nb.local.D2op>>[k].shape], data |-> Size(nb.local.y), src |-> nb.local.y.src]) IN
          IF ~(Size(nb.local.y) = nb.local.KOp.shape[1] /\ \A k \in 1..Len(<<nb.local.D2op>>) : <<nb.local.D2op>>[k].shape[2] = nb.local.KOp.shape[2])
          THEN Abort(846, "ValueError", <<c>>, {}, "L932", raised)
          ELSE
               \/ /\ log' = log \o <<c,
                          Ev("return", 846, "RegularizedInversion", [size |-> nb.local.KOp.shape[2]]),
                          Ev("bind", 846, "radon_kk.image_l2", Arr(<<nb.local.KOp.shape[2]>>, "RegularizedInversion"))>>
                  /\ nb' = [nb EXCEPT !.local.image_l2 = Arr(<<nb.local.KOp.shape[2]>>, "RegularizedInversion"),
                          !.lnames = @ \cup {"image_l2"}]
                  /\ pc' = "L851"
                  /\ UNCHANGED <<nx, ny, inner, thetas, rr, Radop, image, projection1, ydata, xadj, varsGrid, varsMse, raised>>
               \/ /\ raised = None
                  /\ Abort(846, "error", <<c>>, {}, "L932", [line |-> 846, what |-> "RegularizedInversion"])

\* image_l2 = np.real(image_l2.reshape(nx, ny))
L851_reshape ==
  /\ pc = "L851"
  /\ IF ~Readable({"nx", "ny"}, {"image_l2"})
     THEN Abort(851, "NameError", <<>>, {}, "L932", raised)
     ELSE
          IF ~(Size(nb.local.image_l2) = nx * ny)
          THEN Abort(851, "ValueError", <<>>, {}, "L932", raised)
          ELSE
               /\ log' = log \o <<Ev("bind", 851, "radon_kk.image_l2", Arr(<<nx, ny>>, nb.local.image_l2.src))>>
               /\ nb' = [nb EXCEPT !.local.image_l2 = Arr(<<nx, ny>>, nb.local.image_l2.src),
                       !.lnames = @ \cup {"image_l2"}]
               /\ pc' = "L853"
               /\ UNCHANGED <<nx, ny, inner, thetas, rr, Radop, image, projection1, ydata, xadj, varsGrid, varsMse, raised>>

\* plots of image_l2 (local) and its error
L853_plot ==
  /\ pc = "L853"
  /\ IF ~Readable({"image", "pad"}, {"image_l2"})
     THEN Abort(853, "NameError", <<>>, {}, "L932", raised)
     ELSE
          IF ~(Broadcastable(WindowShape(nb.local.image_l2, nb.v.pad), WindowShape(nb.v.image, nb.v.pad)))
          THEN Abort(853, "ValueError", <<>>, {}, "L932", raised)
          ELSE
               /\ log' = log \o <<Ev("plot", 853, "plt", {"radon_kk.image_l2", "image"})>>
               /\ nb' = nb
               /\ pc' = "L865"
               /\ UNCHANGED <<nx, ny, inner, thetas, rr, Radop, image, projection1, ydata, xadj, varsGrid, varsMse, raised>>

\* Dop = [FirstDerivative(...dir=0), FirstDerivative(...dir=1)]; mu, lamda, niter, niterinner (locals)
L865_FirstDerivative ==
  /\ pc = "L865"
  /\ IF ~Readable({"nx", "ny"}, {})
     THEN Abort(865, "NameError", <<>>, {}, "L932", raised)
     ELSE LET c == Ev("call", 865, "FirstDerivative", {}) IN
          \/ /\ log' = log \o <<c,
                     Ev("return", 865, "FirstDerivative", {}),
                     Ev("bind", 865, "radon_kk.Dop", <<LinOp("FirstDerivative", ny * nx, ny * nx), LinOp("FirstDerivative", ny * nx, ny * nx)>>),
                     Ev("bind", 865, "radon_kk.mu", Scalar("0.5")),
                     Ev("bind", 865, "radon_kk.lamda", <<Scalar(".05"), Scalar(".05")>>),
                     Ev("bind", 865, "radon_kk.niter", Scalar("5")),
                     Ev("bind", 865, "radon_kk.niterinner", Scalar("1"))>>
             /\ nb' = [nb EXCEPT !.local.Dop = <<LinOp("FirstDerivative", ny * nx, ny * nx), LinOp("FirstDerivative", ny * nx, ny * nx)>>,
                     !.local.mu = Scalar("0.5"),
                     !.local.lamda = <<Scalar(".05"), Scalar(".05")>>,
                     !.local.niter = Scalar("5"),
                     !.local.niterinner = Scalar("1"),
                     !.lnames = @ \cup {"Dop", "mu", "lamda", "niter", "niterinner"}]
             /\ pc' = "L875"
             /\ UNCHANGED <<nx, ny, inner, thetas, rr, Radop, image, projection1, ydata, xadj, varsGrid, varsMse, raised>>
          \/ /\ raised = None
             /\ Abort(865, "error", <<c>>, {}, "L932", [line |-> 865, what |-> "FirstDerivative"])

\* image_tv, niter = SplitBregman(KOp, Dop, y, niter, niterinner)
L875_SplitBregman ==
  /\ pc = "L875"
  /\ IF ~Readable({}, {"KOp", "Dop", "y", "niter", "niterinner", "mu", "lamda"})
     THEN Abort(875, "NameError", <<>>, {}, "L932", raised)
     ELSE LET c == Ev("call", 875, "SplitBregman", [op |-> nb.local.KOp.shape, regs |-> [k \in 1..Len(nb.local.Dop) |-> nb.local.Dop[k].shape], data |-> Size(nb.local.y), src |-> nb.local.y.src]) IN
          IF ~(Size(nb.local.y) = nb.local.KOp.shape[1] /\ \A k \in 1..Len(nb.local.Dop) : nb.local.Dop[k].shape[2] = nb.local.KOp.shape[2])
          THEN Abort(875, "ValueError", <<c>>, {}, "L932", raised)
          ELSE
               \/ /\ log' = log \o <<c,
                          Ev("return", 875, "SplitBregman", [size |-> nb.local.KOp.shape[2]]),
                          Ev("bind", 875, "radon_kk.image_tv", Arr(<<nb.local.KOp.shape[2]>>, "SplitBregman")),
                          Ev("bind", 875, "radon_kk.niter", Scalar("SplitBregman"))>>
                  /\ nb' = [nb EXCEPT !.local.image_tv = Arr(<<nb.local.KOp.shape[2]>>, "SplitBregman"),
                          !.local.niter = Scalar("SplitBregman"),
                          !.lnames = @ \cup {"image_tv", "niter"}]
                  /\ pc' = "L886"
                  /\ UNCHANGED <<nx, ny, inner, thetas, rr, Radop, image, projection1, ydata, xadj, varsGrid, varsMse, raised>>
               \/ /\ raised = None
                  /\ Abort(875, "error", <<c>>, {}, "L932", [line |-> 875, what |-> "SplitBregman"])

\* image_tv = np.real(image_tv.reshape(nx, ny))
L886_reshape ==
  /\ pc = "L886"
  /\ IF ~Readable({"nx", "ny"}, {"image_tv"})
     THEN Abort(886, "NameError", <<>>, {}, "L932", raised)
     ELSE
          IF ~(Size(nb.local.image_tv) = nx * ny)
          THEN Abort(886, "ValueError", <<>>, {}, "L932", raised)
          ELSE
               /\ log' = log \o <<Ev("bind", 886, "radon_kk.image_tv", Arr(<<nx, ny>>, nb.local.image_tv.src))>>
               /\ nb' = [nb EXCEPT !.local.image_tv = Arr(<<nx, ny>>, nb.local.image_tv.src),
                       !.lnames = @ \cup {"image_tv"}]
               /\ pc' = "L888"
               /\ UNCHANGED <<nx, ny, inner, thetas, rr, Radop, image, projection1, ydata, xadj, varsGrid, varsMse, raised>>

\* plots of image_tv (local) and its error; return
L888_plot ==
  /\ pc = "L888"
  /\ IF ~Readable({"image", "pad"}, {"image_tv"})
     THEN Abort(888, "NameError", <<>>, {}, "L932", raised)
     ELSE
          IF ~(Broadcastable(WindowShape(nb.local.image_tv, nb.v.pad), WindowShape(nb.v.image, nb.v.pad)))
          THEN Abort(888, "ValueError", <<>>, {}, "L932", raised)
          ELSE
               /\ log' = log \o <<Ev("plot", 888, "plt", {"radon_kk.image_tv", "image"}),
                       Ev("exit", 888, "radon_kk", {})>>
               /\ nb' = [nb EXCEPT !.fn = "",
                       !.lnames = {},
                       !.local = NoLocal]
               /\ pc' = "L932"
               /\ UNCHANGED <<nx, ny, inner, thetas, rr, Radop, image, projection1, ydata, xadj, varsGrid, varsMse, raised>>

\* scooby.Report(core='pylops')
L932_report ==
  /\ pc = "L932"
  /\ log' = log \o <<Ev("print", 932, "print", {"scooby.Report"})>>
  /\ nb' = nb
  /\ pc' = "end"
  /\ UNCHANGED <<nx, ny, inner, thetas, rr, Radop, image, projection1, ydata, xadj, varsGrid, varsMse, raised>>

\* A library call inside RadonRotate fails: Sum or Bilinear for the current
\* angle, or VStack after the loop.  The exception leaves RadonRotate and the
\* cell that called it; Radop is not bound.
RR_Raise ==
  /\ \/ pc = "append"
     \/ pc = "for" /\ rr.k = Len(rr.thetas)
  /\ raised = None
  /\ LET line == IF pc = "append" THEN 449 ELSE 452
         what == IF pc = "append" THEN "Sum * Bilinear" ELSE "VStack"
     IN  Abort(line, "error", <<Ev("call", line, what, {})>>, {"Radop"}, "L487",
               [line |-> line, what |-> what])

InitRun ==
  /\ nx = 0 /\ ny = 0 /\ inner = 0
  /\ thetas = <<>>
  /\ pc = "L109"
  /\ rr = NoLocals
  /\ Radop = None
  /\ image = <<>>
  /\ projection1 = None
  /\ ydata = <<>>
  /\ xadj = None
  /\ grid = IdleGrid
  /\ mse = IdleMse
  /\ \E side \in {2 * MaxPhantom - 1, 2 * MaxPhantom}, pad \in (MaxPad - 1)..MaxPad, inner_ \in Inners, ths \in RunThetas :
       /\ inner_ < EveryOther(side) + 2 * pad
       /\ nb = Kernel([phantom |-> side, pad |-> pad, inner |-> inner_, thetas |-> ths])
  /\ log = <<>>
  /\ raised = None

NextRun ==
  \/ RR_Grid
  \/ RR_Rotate
  \/ RR_Recenter
  \/ RR_Append
  \/ RR_Stack
  \/ RR_Raise
  \/ L109_phantom
  \/ L112_pad
  \/ L113_np_pad
  \/ L115_plot
  \/ L144_thetas
  \/ L148_radon
  \/ L150_plot
  \/ L176_iradon
  \/ L179_mse_fbp
  \/ L181_plot
  \/ L211_lambdas
  \/ L218_FunctionOperator
  \/ L239_Fop_forward
  \/ L240_reshape
  \/ L243_Fop_adjoint
  \/ L244_reshape
  \/ L246_plot
  \/ L271_dottest
  \/ L344_shape_inner
  \/ L348_grid
  \/ L356_rotate
  \/ L363_recenter
  \/ L369_plot
  \/ L389_Rop
  \/ L405_Rop_forward
  \/ L406_reshape
  \/ L408_plot
  \/ L428_def_RadonRotate
  \/ L469_inner
  \/ L470_call_RadonRotate
  \/ L471_print_Radop
  \/ L487_Radop_forward
  \/ L488_reshape
  \/ L497_plot
  \/ L504_plot_difference
  \/ L537_Laplacian
  \/ L540_RegularizedInversion
  \/ L544_reshape
  \/ L545_mse_l2
  \/ L547_plot
  \/ L572_FirstDerivative
  \/ L582_SplitBregman
  \/ L585_reshape
  \/ L586_mse_tv
  \/ L588_plot
  \/ L611_plot
  \/ L656_print_mse_fbp
  \/ L657_print_mse_l2
  \/ L658_print_mse_tv
  \/ L694_def_radon_morereg
  \/ L743_call_radon_morereg
  \/ L698_DWT2D
  \/ L699_DWop
  \/ L707_SplitBregman
  \/ L719_reshape
  \/ L720_mse_tvw
  \/ L723_print_mse_tvw
  \/ L725_plot
  \/ L759_def_radon_noise
  \/ L776_call_radon_noise
  \/ L762_noise
  \/ L764_projection_n
  \/ L765_projection1_n
  \/ L792_def_radon_kk
  \/ L906_call_radon_kk
  \/ L796_FFT2D
  \/ L799_wavenumbers
  \/ L803_mask
  \/ L812_Restriction
  \/ L816_kk
  \/ L817_reshape
  \/ L820_mask_kk
  \/ L821_reshape
  \/ L826_KOp
  \/ L827_data
  \/ L829_plot
  \/ L844_Laplacian
  \/ L846_RegularizedInversion
  \/ L851_reshape
  \/ L853_plot
  \/ L865_FirstDerivative
  \/ L875_SplitBregman
  \/ L886_reshape
  \/ L888_plot
  \/ L932_report

SpecRun == InitRun /\ [][NextRun]_vars


(***************************************************************************)
(* Properties of the run, read from its events.                            *)
(***************************************************************************)
Solvers == {"RegularizedInversion", "SplitBregman"}

\* The events a step adds to the log.
NewEvents == (Len(log) + 1)..Len(log')

\* Before event j every cell has bound all the names it binds: no exception
\* has cut short a cell that still had a notebook-level name to bind.
Intact(lg, j) == \A i \in 1..(j - 1) : lg[i].ev = "raise" => lg[i].info = {}

\* The events before j that bind `name`.
Binds(lg, name, j) == {i \in 1..(j - 1) : lg[i].ev = "bind" /\ lg[i].what = name}

\* The reconstructions that have a metric, and the metric of each.
Reconstructions == {"image_fbp", "image_l2", "image_tv", "radon_morereg.image_tvw"}
MetricOf(r) ==
  CASE r = "image_fbp" -> "mse_fbp"
    [] r = "image_l2" -> "mse_l2"
    [] r = "image_tv" -> "mse_tv"
    [] r = "radon_morereg.image_tvw" -> "radon_morereg.mse_tvw"

\* The stage of an event: 1 load image, 2 build the projection operator,
\* 3 apply it forward, 4 run a solver, 5 compute an error metric, 6 plot
\* (0: none of them).
Stage(e) ==
  CASE e.ev = "bind" /\ e.what = "image" -> 1
    [] e.ev = "bind" /\ e.what = "Radop" -> 2
    [] e.ev = "call" /\ e.what = "Radop.matvec" -> 3
    [] e.ev = "call" /\ e.what \in Solvers -> 4
    [] e.ev = "bind" /\ e.what \in {MetricOf(r) : r \in Reconstructions} -> 5
    [] e.ev = "plot" -> 6
    [] OTHER -> 0

C6_Ordered(lg, j) ==
  LET e == lg[j]
  IN  \* a library call is over (returned or raised) before anything else happens
      /\ (j > 1 /\ lg[j - 1].ev = "call") =>
            e.ev \in {"return", "raise"} /\ e.line = lg[j - 1].line
      /\ (e.ev = "call") => j < Len(lg)
      \* Radop is built before it is applied, by the cell or by a solver
      /\ (e.ev = "call" /\ (e.what = "Radop.matvec" \/ e.line \in {540, 582, 707})) =>
            Binds(lg, "Radop", j) # {}
      \* the solvers start after projection1 has been computed from Radop
      /\ (e.ev = "call" /\ e.line \in {540, 582, 707} /\ Intact(lg, j)) =>
            \E i \in Binds(lg, "projection1", j) :
              /\ lg[i].line = 488
              /\ lg[i].info.src = "Radop"
              /\ \A k \in Binds(lg, "projection1", j) : k <= i
              /\ \E k \in 1..(i - 1) : lg[k].ev = "return" /\ lg[k].what = "Radop.matvec"
      \* a metric is computed after its reconstruction exists ...
      /\ \A r \in Reconstructions :
           (e.ev = "bind" /\ e.what = MetricOf(r)) =>
              /\ Binds(lg, r, j) # {}
              /\ \A i \in 1..(j - 1) : lg[i].ev = "plot" => r \notin lg[i].info
      \* ... and before that reconstruction is plotted
      /\ \A r \in Reconstructions :
           (e.ev = "plot" /\ r \in e.info) => Binds(lg, MetricOf(r), j) # {}
      \* the three metrics are printed after all three have been computed
      /\ (e.ev = "print" /\ e.line \in {656, 657, 658} /\ Intact(lg, j)) =>
            \A m \in {"mse_fbp", "mse_l2", "mse_tv"} : Binds(lg, m, j) # {}

C7_Consistent(lg, j, nx_, ny_, inner_, nthetas) ==
  LET e == lg[j]
  IN  /\ (e.ev = "call" /\ e.what \in Solvers /\ Intact(lg, j)) =>
            /\ e.info.data = e.info.op[1]
            /\ \A k \in 1..Len(e.info.regs) : e.info.regs[k][2] = e.info.op[2]
            /\ e.line \in {540, 582, 707} =>
                 /\ e.info.src = "Radop"
                 /\ e.info.data = nthetas * (ny_ - inner_)
                 /\ e.info.op = <<nthetas * (ny_ - inner_), nx_ * ny_>>
                 /\ Len(e.info.regs) = (CASE e.line = 540 -> 1 [] e.line = 582 -> 2 [] e.line = 707 -> 3)
                 /\ \A k \in 1..Len(e.info.regs) : e.info.regs[k][2] = nx_ * ny_
      /\ (e.ev = "return" /\ e.what \in Solvers /\ Intact(lg, j)) =>
            e.info.size = nx_ * ny_
      /\ (e.ev = "raise" /\ e.line \in {544, 585, 719, 851, 886}) => ~Intact(lg, j)
      /\ (e.ev = "bind" /\ e.line \in {544, 585, 719, 851, 886}) =>
            e.info.shape = <<nx_, ny_>>

\* C7: at every solver call of a run in which no cell was cut short before
\* binding its names, the data vector has as many samples as the operator has
\* rows and every regularisation operator acts on as many samples as the
\* operator has columns; for the three calls with Radop the data vector is
\* projection1 as computed from Radop, of len(thetas)*(ny-inner) samples, and
\* the regularisation operators act on nx*ny samples; every solution has
\* nx*ny samples and its reshape(nx, ny) succeeds.
C7_ShapesConsistentAtSolverCalls ==
  [][\A j \in NewEvents : C7_Consistent(log', j, nx', ny', inner', Len(thetas'))]_vars

\* C7 witness: the solver of radon_morereg has run on the projection of more
\* than one angle and its solution has been reshaped, in a run where the
\* dot test of Fop raised.
C7_Witness ==
  /\ pc = "L720"
  /\ raised # None
  /\ raised.line = 271
  /\ inner > 0
  /\ Len(thetas) > 1
  /\ nb.local.image_tvw.shape = <<nx, ny>>

\* The lines of each code cell; the body of a function defined in the
\* notebook belongs with the cell that calls it.
Units ==
  { 108..118, 143..157, 175..188, 206..218, 238..253, 271..271, 342..372,
    388..389, 405..412, (428..453) \cup (469..471), 487..488, 497..507,
    535..554, 570..595, 611..640, 656..658, (694..734) \cup (743..743),
    (759..767) \cup (776..776), (792..897) \cup (906..906), 932..932 }

SameUnit(a, b) == \E U \in Units : a \in U /\ b \in U

\* What C8 requires of a step.
C8_Step ==
  /\ \A j \in NewEvents :
       \* no statement of a cell or function runs after an exception in it
       /\ \A i \in 1..Len(log) :
            log[i].ev = "raise" => ~SameUnit(log[i].line, log'[j].line)
       /\ log'[j].ev = "raise" =>
            \* the exception ends the statement
            /\ j = Len(log')
            \* the failing call was attempted once, and only an attempted call fails
            /\ Cardinality({i \in 1..j : log'[i].ev = "call" /\ log'[i].line = log'[j].line})
                 = (IF j = 1 \/ log'[j].what = "NameError" \/ log'[j - 1].ev # "call" THEN 0 ELSE 1)
            /\ log'[j].what = "error" => (j > 1 /\ log'[j - 1].ev = "call" /\ log'[j - 1].line = log'[j].line)
            \* every notebook-level name keeps its value
            /\ UNCHANGED <<nx, ny, inner, thetas, Radop, projection1>>
            /\ nb'.names = nb.names
            /\ nb'.v = nb.v
            \* the running function is left
            /\ nb'.fn = ""
            /\ nb'.lnames = {}
            /\ rr' = NoLocals

\* C8: when an external-library call raises, it has been attempted exactly
\* once, the exception ends the enclosing cell or function at that statement,
\* no later statement of it runs, and every notebook-level name keeps the
\* value it had.
C8_RaiseAbortsWithoutRetry == [][C8_Step]_vars

\* C8 witness: the solver of radon_morereg raised, while locals were bound;
\* the run went on with the next cells.
C8_Witness ==
  /\ raised # None
  /\ raised.line = 707
  /\ pc = "L792"
  /\ nb.fn = ""
  /\ "image_tv" \in nb.names

\* C11: when Fop.H is applied (line 243), the value projection1 holds is the
\* output of Fop * image.ravel(): the latest binding of projection1 before
\* the call of the adjoint is an array that came out of Fop's forward.
C11_AdjointAppliedToFopOutput ==
  \A j \in 1..Len(log) :
    (log[j].ev = "call" /\ log[j].what = "Fop.rmatvec") =>
      \E i \in Binds(log, "projection1", j) :
        /\ \A k \in Binds(log, "projection1", j) : k <= i
        /\ log[i].info.src = "Fop"

\* The shape of projection[D//2 - (nx-inner)//2 : D//2 + (nx-inner)//2], where
\* D = projection.shape[0].
C12_Window ==
  LET D == nb.v.projection.shape[1]
  IN  <<SliceLen(D, (D \div 2) - ((nx - inner) \div 2), (D \div 2) + ((nx - inner) \div 2)),
        nb.v.projection.shape[2]>>

\* The comparison (line 504) or radon_noise (line 765) is about to use the
\* window, projection1 is the one reshaped at line 488, the image is square
\* and nx-inner is even.
C12_Pre ==
  /\ pc \in {"L504", "L765"}
  /\ {"projection1", "projection", "nx", "inner"} \subseteq nb.names
  /\ pc = "L765" => "n" \in nb.lnames
  /\ projection1.src = "Radop" /\ Len(projection1.shape) = 2
  /\ nx = ny
  /\ (nx - inner) % 2 = 0

\* C12: when nx = ny and nx-inner is even, the window of the sinogram has
\* ny-inner rows and len(thetas) columns, the shape of projection1.T, and the
\* statement that subtracts or adds the two does not raise.
C12_WindowHasShapeOfProjection1T ==
  [][C12_Pre =>
       /\ C12_Window = <<ny - inner, Len(thetas)>>
       /\ C12_Window = Transposed(projection1.shape)
       /\ Transposed(C12_Window) = projection1.shape
       /\ \A j \in NewEvents : log'[j].ev # "raise"
       /\ \E j \in NewEvents : log'[j].line = (IF pc = "L504" THEN 504 ELSE 765)
       \* the notebook's values: nx = ny = 300, inner = 100
       /\ LET D == RadonRows(NotebookSide)
              h == (NotebookSide - NotebookInner) \div 2
          IN  SliceLen(D, (D \div 2) - h, (D \div 2) + h) = NotebookSide - NotebookInner]_vars

\* C12 witness: with inner > 0 and nx-inner even, the difference was plotted
\* and radon_noise has added the window to projection1.
C12_Witness ==
  /\ pc = "L792"
  /\ inner > 0 /\ (nx - inner) % 2 = 0 /\ Len(thetas) > 1
  /\ \E j \in 1..Len(log) : log[j].ev = "plot" /\ log[j].line = 504
  /\ \E j \in 1..Len(log) : log[j].ev = "bind" /\ log[j].line = 765

(***************************************************************************)
(* Properties of the locals of RadonRotate.                                *)
(***************************************************************************)
\* The positions of the loop of RadonRotate.
C13_InLoop(p) == p \in {"for", "recenter", "append"}

\* The centred, unrotated grid: x = -x0+inner//2 .. nx-inner-1-x0+inner//2 and
\* likewise y, the x of a point constant along a row of ny-inner points.
C13_CentredGrid(nx_, ny_, inner_) ==
  LET lx == Max(nx_ - inner_, 0)
      ly == Max(ny_ - inner_, 0)
  IN  << [p \in 1..(lx * ly) |-> ((p - 1) \div ly) - (nx_ \div 2) + (inner_ \div 2)],
         [p \in 1..(lx * ly) |-> ((p - 1) % ly) - (ny_ \div 2) + (inner_ \div 2)] >>

C13_Step ==
  /\ C13_InLoop(pc') => rr'.XY = C13_CentredGrid(nx', ny', inner')
  /\ (C13_InLoop(pc) /\ C13_InLoop(pc')) => rr'.XY = rr.XY
  /\ (pc' = "append") =>
       LET th == rr'.theta
           XY == rr'.XY
           x0 == nx' \div 2
           y0 == ny' \div 2
       IN  \A p \in 1..Len(XY[1]) :
             /\ rr'.XYrot[1][p] = th.c * XY[1][p] - th.s * XY[2][p] + th.d * x0
             /\ rr'.XYrot[2][p] = th.s * XY[1][p] + th.c * XY[2][p] + th.d * y0
             /\ (XY[1][p] = 0 /\ XY[2][p] = 0) =>
                  rr'.XYrot[1][p] = th.d * x0 /\ rr'.XYrot[2][p] = th.d * y0

\* C13: inside the loop of RadonRotate XY is never modified: in every
\* iteration it is the centred grid, only XYrot is shifted by (x0, y0), so
\* every angle's grid is the rotation of that grid about (nx//2, ny//2) and
\* the point at the centre maps to (x0, y0) (coordinates over theta.d).
C13_GridUnchangedInLoop == [][C13_Step]_vars

\* C13 witness: the second angle, not 0 degrees, has been rotated and
\* shifted, and the grid has a point at the centre.
C13_Witness ==
  /\ pc = "append"
  /\ rr.k = 2
  /\ rr.theta.s # 0
  /\ \E p \in 1..Len(rr.XY[1]) :
       /\ rr.XY[1][p] = 0 /\ rr.XY[2][p] = 0
       /\ rr.XYrot[1][p] = rr.theta.d * rr.x0
  /\ Len(rr.XY[1]) > 1

(***************************************************************************)
(* Properties of the calls of the notebook's functions.                    *)
(***************************************************************************)
\* The step is taken by a call of RadonRotate, radon_morereg, radon_noise or
\* radon_kk: it enters the function, runs one of its statements, or leaves it.
C14_InCall ==
  \/ nb.fn # ""
  \/ pc \in {"L470", "L743", "L776", "L906"}
  \/ pc \in {"call", "for", "recenter", "append"}

C14_Step ==
  C14_InCall =>
    /\ nb'.v = nb.v
    /\ nb'.names = nb.names
    /\ UNCHANGED <<nx, ny, inner, thetas, projection1>>
    \* Radop changes only when the calling statement binds the value returned
    /\ Radop' # Radop => (pc = "for" /\ pc' = "built")
    \* the caller's angles are still in degrees
    /\ \A k \in 1..Len(thetas') : thetas'[k].unit = "deg"
    \* Dop still has its two derivative operators
    /\ "Dop" \in nb'.names => Len(nb'.v.Dop) = 2

\* C14: a call of RadonRotate, radon_morereg, radon_noise or radon_kk leaves
\* every notebook-level variable unchanged: the functions bind locals only
\* (thetas stays in degrees, Dop keeps its two operators, niter, image_l2,
\* image_tv, mse_tv, Fop, Rop, D2op, projection and projection1 keep their
\* values); only the calling statement binds the returned Radop.
C14_CallsLeaveNotebookNamesUnchanged == [][C14_Step]_vars

\* C14 witness: all four functions were called and returned, none raised, and
\* radon_kk had bound locals named like notebook-level variables.
C14_Witness ==
  /\ pc = "L932"
  /\ \A j \in 1..Len(log) : log[j].ev # "raise"
  /\ \A f \in {"RadonRotate", "radon_morereg", "radon_noise", "radon_kk"} :
       \E j \in 1..Len(log) : log[j].ev = "exit" /\ log[j].what = f
  /\ \E j \in 1..Len(log) : log[j].ev = "bind" /\ log[j].what = "radon_kk.Dop"
  /\ \E j \in 1..Len(log) : log[j].ev = "bind" /\ log[j].what = "radon_kk.thetas"
  /\ nb.v.Fop.name = "FunctionOperator"
====
